---- MODULE Spec2Model ----
(***************************************************************************)
(* A model of the pybayes knowledge engine: logical primitives and         *)
(* substitution (world/core/logic.py), the Horn-clause knowledge base and  *)
(* its grounding (world/core/horn.py), the DSL compiler                    *)
(* (qbbn/core/logical_lang.py), and factor-graph construction with damped  *)
(* loopy belief propagation (qbbn/core/factor_graph.py).                   *)
(*                                                                         *)
(* Three specifications share the state:                                   *)
(*   SpecKB    builds a KnowledgeBase, grounds it and calls ground()       *)
(*   SpecBP    builds a FactorGraph from a KnowledgeBase and propagates    *)
(*   SpecParse parses a DSL text, formats the Document and parses again    *)
(*                                                                         *)
(* Floats are modelled as exact rationals <<num, den>>; exp(-weight) is a  *)
(* table of rational approximations (exp_neg).                             *)
(***************************************************************************)
EXTENDS Integers, Sequences, FiniteSets, TLC

VARIABLES
    kb,        \* KnowledgeBase: [entities, clauses]
    grounded,  \* return value of the last ground_all() call, or NoValue
    last,      \* the last HornClause.ground call: [clause, binding, result]
    kbpc,      \* "none" without a KnowledgeBase, "build" while clauses are
               \* added, "grounded" afterwards
    graph,     \* the FactorGraph built from kb, or NoValue
    var_to_factor_msgs,  \* of the current belief_propagation call
    bp,        \* the current call: [pc, iteration, iterations, damping, max_change]
    calls,     \* the belief_propagation calls so far: [iterations, damping, ran]
    queried,   \* the last query() since the last call: [key, result], or NoValue
    trace,     \* the BPTrace of the current call: its list `iterations`
    text,      \* the DSL text given to parse_logical
    parser,    \* the running parse: [pc, doc, lines, i, error]
    first,     \* the Document parse_logical(text) returned, once formatted
    formatted, \* format_document(first), or NoValue
    LAYERS,    \* the registry of layers: a dict from id to [id, depends_on]
    store,     \* the runner's store: [has_delete_data, data]
    runner,    \* the last call of the runner and what it returned, or NoValue
    ops        \* the number of calls of the runner so far

vars == <<kb, grounded, last, kbpc, graph, var_to_factor_msgs, bp, calls, queried, trace,
          text, parser, first, formatted,
         LAYERS, store, runner, ops>>

kbvars == <<kb, grounded, last, kbpc>>
bpvars == <<graph, var_to_factor_msgs, bp, calls, queried, trace>>
parsevars == <<text, parser, first, formatted>>
runvars == <<LAYERS, store, runner, ops>>

NoValue == [tag |-> "None"]

\* ------------------------------------------------------------------------
\* Sequence helpers
\* ------------------------------------------------------------------------

Range(s) == {s[i] : i \in DOMAIN s}

RECURSIVE Flatten(_)
Flatten(ss) == IF ss = <<>> THEN <<>> ELSE Head(ss) \o Flatten(Tail(ss))

\* ------------------------------------------------------------------------
\* Logical primitives (world/core/logic.py)
\* ------------------------------------------------------------------------

\* Type and Entity are one-field value types; they are modelled by their
\* name / id string.
Constant(entity, type) == [tag |-> "Constant", entity |-> entity, type |-> type]

Variable(type, name) == [tag |-> "Variable", type |-> type, name |-> name]

\* roles is a tuple of <<RoleLabel, Argument>> pairs
Predicate(function_name, roles) ==
    [tag |-> "Predicate", function_name |-> function_name, roles |-> roles]

\* A mutant of Predicate_eq: the roles are compared as a set of pairs.
Predicate_eq_unordered(p, q) ==
    /\ p.function_name = q.function_name
    /\ Range(p.roles) = Range(q.roles)

\* the __eq__ the dataclass generates: the fields compared as a tuple
Predicate_eq(p, q) ==
    /\ p.function_name = q.function_name
    /\ p.roles = q.roles

RECURSIVE Predicate_is_grounded(_)
Predicate_is_grounded(p) ==
    \A i \in DOMAIN p.roles :
        LET arg == p.roles[i][2] IN
        /\ arg.tag # "Variable"
        /\ (arg.tag = "Predicate" => Predicate_is_grounded(arg))

RECURSIVE Predicate_variables(_)
Predicate_variables(p) ==
    UNION { LET arg == p.roles[i][2] IN
            IF arg.tag = "Variable" THEN {arg}
            ELSE IF arg.tag = "Predicate" THEN Predicate_variables(arg)
            ELSE {} : i \in DOMAIN p.roles }

\* A mutant of substitute: a bound variable nested in an intensional
\* argument is left alone.
RECURSIVE substitute_shallow(_, _)
substitute_shallow(p, bindings) ==
    Predicate(p.function_name,
        [i \in DOMAIN p.roles |->
            LET role == p.roles[i][1]
                arg  == p.roles[i][2] IN
            IF arg.tag = "Variable" /\ arg \in DOMAIN bindings
            THEN <<role, bindings[arg]>>
            ELSE <<role, arg>>])

RECURSIVE substitute(_, _)
substitute(p, bindings) ==
    Predicate(p.function_name,
        [i \in DOMAIN p.roles |->
            LET role == p.roles[i][1]
                arg  == p.roles[i][2] IN
            IF arg.tag = "Variable" /\ arg \in DOMAIN bindings
            THEN <<role, bindings[arg]>>
            ELSE IF arg.tag = "Predicate"
            THEN <<role, substitute(arg, bindings)>>
            ELSE <<role, arg>>])

\* ------------------------------------------------------------------------
\* Horn clauses and the knowledge base (world/core/horn.py)
\* ------------------------------------------------------------------------

HornClause(premises, conclusion, variables, weight) ==
    [premises |-> premises, conclusion |-> conclusion,
     variables |-> variables, weight |-> weight]

is_fact(clause) == Len(clause.premises) = 0

HornClause_is_grounded(clause) ==
    /\ \A i \in DOMAIN clause.premises : Predicate_is_grounded(clause.premises[i])
    /\ Predicate_is_grounded(clause.conclusion)

\* A mutant of ground: the weight of the rule is not carried over.
ground_default_weight(clause, bindings) ==
    HornClause([i \in DOMAIN clause.premises |-> substitute(clause.premises[i], bindings)],
               substitute(clause.conclusion, bindings),
               <<>>,
               <<1, 0>>)

ground(clause, bindings) ==
    HornClause([i \in DOMAIN clause.premises |-> substitute(clause.premises[i], bindings)],
               substitute(clause.conclusion, bindings),
               <<>>,
               clause.weight)

\* kb.entities is a dict: a sequence of <<name, Constant>> in insertion order
entities_of_type(k, type_name) ==
    LET matching == SelectSeq(k.entities, LAMBDA e : e[2].type = type_name)
    IN  [i \in DOMAIN matching |-> matching[i][2]]

add_fact(k, pred) ==
    [k EXCEPT !.clauses = Append(@, HornClause(<<>>, pred, <<>>, <<1, 0>>))]

add_rule(k, premises, conclusion, variables, weight) ==
    [k EXCEPT !.clauses = Append(@, HornClause(premises, conclusion, variables, weight))]

RECURSIVE add_facts(_, _)
add_facts(k, propositions) ==
    IF propositions = <<>> THEN k
    ELSE add_facts(add_fact(k, Head(propositions)), Tail(propositions))

RECURSIVE add_rules(_, _)
add_rules(k, rules) ==
    IF rules = <<>> THEN k
    ELSE add_rules(add_rule(k, Head(rules).premises, Head(rules).conclusion,
                            Head(rules).variables, Head(rules).weight),
                   Tail(rules))

\* KnowledgeBase.from_logical_document(doc)
from_logical_document(doc) ==
    add_rules(add_facts([entities |-> doc.entities, clauses |-> <<>>],
                        doc.propositions),
              doc.rules)

\* itertools.product: the leftmost domain varies slowest
RECURSIVE product(_)
product(domains) ==
    IF domains = <<>> THEN << <<>> >>
    ELSE LET rest == product(Tail(domains)) IN
         Flatten([i \in DOMAIN Head(domains) |->
                     [j \in DOMAIN rest |-> <<Head(domains)[i]>> \o rest[j]]])

\* {var: const for var, const in zip(variables, combo)}: a later pair with
\* the same variable overwrites an earlier one
zip_binding(variables, combo) ==
    [v \in Range(variables) |->
        combo[CHOOSE i \in DOMAIN variables :
                 /\ variables[i] = v
                 /\ \A j \in DOMAIN variables : variables[j] = v => j <= i]]

\* A mutant of _all_bindings: a variable whose type has no entity is
\* skipped instead of emptying the result.
all_bindings_skip_empty(k, variables) ==
    IF variables = <<>> THEN << <<>> >>
    ELSE LET domains == [i \in DOMAIN variables |->
                            entities_of_type(k, variables[i].type)]
             kept    == SelectSeq([i \in DOMAIN variables |-> i],
                                  LAMBDA i : domains[i] # <<>>)
             combos  == product([n \in DOMAIN kept |-> domains[kept[n]]])
         IN  [c \in DOMAIN combos |->
                 zip_binding([n \in DOMAIN kept |-> variables[kept[n]]], combos[c])]

all_bindings(k, variables) ==
    IF variables = <<>> THEN << <<>> >>
    ELSE LET domains == [i \in DOMAIN variables |->
                            entities_of_type(k, variables[i].type)]
         IN  IF \E i \in DOMAIN domains : domains[i] = <<>>
             THEN <<>>
             ELSE LET combos == product(domains) IN
                  [c \in DOMAIN combos |-> zip_binding(variables, combos[c])]

\* A mutant of ground_clause: a rule without bindings is kept as it is.
ground_clause_keep_unbound(k, clause) ==
    IF is_fact(clause) THEN <<clause>>
    ELSE LET bs == all_bindings(k, clause.variables) IN
         IF bs = <<>> THEN <<clause>>
         ELSE [b \in DOMAIN bs |-> ground(clause, bs[b])]

\* the clauses one clause of the KB contributes to ground_all()
ground_clause(k, clause) ==
    IF is_fact(clause) THEN <<clause>>
    ELSE LET bs == all_bindings(k, clause.variables) IN
         [b \in DOMAIN bs |-> ground(clause, bs[b])]

ground_all(k) ==
    Flatten([c \in DOMAIN k.clauses |-> ground_clause(k, k.clauses[c])])

\* ------------------------------------------------------------------------
\* Floats as exact rationals <<num, den>> (num >= 0, den > 0, reduced).
\* A value whose numerator or denominator would exceed MaxMagnitude is
\* NotRepresentable; the steps that would produce one are not taken.
\* ------------------------------------------------------------------------

MaxMagnitude == 1000000000

NotRepresentable == <<0, 0>>

RECURSIVE GCD(_, _)
GCD(a, b) == IF b = 0 THEN a ELSE GCD(b, a % b)

MulFits(a, b) == a = 0 \/ b <= MaxMagnitude \div a

Rat(n, d) == LET g == GCD(n, d) IN <<n \div g, d \div g>>

Zero == <<0, 1>>
One  == <<1, 1>>
Half == <<1, 2>>

IsRep(x) == x[2] # 0

RMul(x, y) ==
    IF ~IsRep(x) \/ ~IsRep(y) THEN NotRepresentable
    ELSE LET g1 == GCD(x[1], y[2])
             g2 == GCD(y[1], x[2])
             a  == x[1] \div g1
             b  == y[1] \div g2
             c  == x[2] \div g2
             e  == y[2] \div g1
         IN  IF MulFits(a, b) /\ MulFits(c, e) THEN <<a * b, c * e>>
             ELSE NotRepresentable

RAdd(x, y) ==
    IF ~IsRep(x) \/ ~IsRep(y) THEN NotRepresentable
    ELSE LET g  == GCD(x[2], y[2])
             mx == y[2] \div g
             my == x[2] \div g
         IN  IF MulFits(x[1], mx) /\ MulFits(y[1], my) /\ MulFits(x[2], mx)
                   /\ x[1] * mx <= MaxMagnitude - y[1] * my
             THEN Rat(x[1] * mx + y[1] * my, x[2] * mx)
             ELSE NotRepresentable

\* abs(x - y)
RAbsDiff(x, y) ==
    IF ~IsRep(x) \/ ~IsRep(y) THEN NotRepresentable
    ELSE LET g  == GCD(x[2], y[2])
             mx == y[2] \div g
             my == x[2] \div g
         IN  IF MulFits(x[1], mx) /\ MulFits(y[1], my) /\ MulFits(x[2], mx)
             THEN LET a == x[1] * mx
                      b == y[1] * my
                  IN  Rat(IF a >= b THEN a - b ELSE b - a, x[2] * mx)
             ELSE NotRepresentable

\* x / y for y > 0
RDiv(x, y) ==
    IF ~IsRep(x) \/ ~IsRep(y) THEN NotRepresentable
    ELSE RMul(x, <<y[2], y[1]>>)

\* 1 - x for 0 <= x <= 1
ROneMinus(x) == IF ~IsRep(x) THEN NotRepresentable ELSE <<x[2] - x[1], x[2]>>

RPositive(x) == x[1] > 0

\* a / b >= c / d for a, c >= 0 and b, d > 0, compared by their continued
\* fractions: no product is formed, so the comparison is exact for every
\* pair of representable numbers
RECURSIVE RGeq(_, _, _, _)
RGeq(a, b, c, d) ==
    IF a \div b # c \div d THEN a \div b > c \div d
    ELSE IF c % d = 0 THEN TRUE
    ELSE IF a % b = 0 THEN FALSE
    ELSE RGeq(d, c % d, b, a % b)

\* max(x, y)
RMax(x, y) ==
    IF ~IsRep(x) \/ ~IsRep(y) THEN NotRepresentable
    ELSE IF RGeq(x[1], x[2], y[1], y[2]) THEN x ELSE y

\* x < 10^-6, the convergence threshold
ConvergenceDigits == 1000000

\* A mutant of BelowThreshold: the loop never stops early.
BelowThreshold_never(x) == FALSE

BelowThreshold(x) ==
    \/ x[1] = 0
    \/ /\ MulFits(x[1], ConvergenceDigits)
       /\ x[1] * ConvergenceDigits < x[2]

\* math.exp(-weight), a rational approximation for the weights of the
\* inputs: exp(0) = 1, exp(-0.5) ~ 3/5, exp(-1) ~ 3/8, exp(-2) ~ 1/7
exp_neg(weight) ==
    CASE weight = <<0, 0>>  -> <<1, 1>>
      [] weight = <<5, -1>> -> <<3, 5>>
      [] weight = <<1, 0>>  -> <<3, 8>>
      [] weight = <<2, 0>>  -> <<1, 7>>

\* ------------------------------------------------------------------------
\* Python dicts: sequences of <<key, value>> in insertion order
\* ------------------------------------------------------------------------

DictHas(d, k) == \E i \in DOMAIN d : d[i][1] = k

DictGet(d, k) == d[CHOOSE i \in DOMAIN d : d[i][1] = k][2]

DictSet(d, k, v) ==
    IF DictHas(d, k)
    THEN [i \in DOMAIN d |-> IF d[i][1] = k THEN <<k, v>> ELSE d[i]]
    ELSE Append(d, <<k, v>>)

DictKeys(d) == [i \in DOMAIN d |-> d[i][1]]

\* ------------------------------------------------------------------------
\* DSL text (qbbn/core/logical_lang.py).  A text is the sequence of its
\* lines (the pieces between "\n"; there is always at least one), and a
\* line is a sequence of tokens: words (\w+), punctuation, numbers and
\* runs of blanks.  Between two tokens of a line there is one blank, except
\* that "(" follows the word before it directly; Space stands for the
\* blanks at the start or the end of a line.
\* ------------------------------------------------------------------------

Word(s) == <<"word", s>>

Sym(s) == <<"sym", s>>

Space == <<"space">>

\* a number written with the digits of m and -e of them after the point
\* ("dec": 2.0 is <<20, -1>>) or as m followed by an exponent ("exp":
\* 1e-05 is <<1, -5>>)
Number(form, m, e) == <<"number", form, m, e>>

IsWord(t) == t[1] = "word"

RECURSIVE Join(_, _)
Join(parts, sep) ==
    IF parts = <<>> THEN <<>>
    ELSE IF Len(parts) = 1 THEN parts[1]
    ELSE parts[1] \o sep \o Join(Tail(parts), sep)

\* format_predicate is also the canonical key of a proposition in the
\* factor graph: an argument is rendered by its entity id or variable name
\* alone, without its type.
RECURSIVE format_predicate(_)
format_arg(arg) ==
    IF arg.tag = "Constant" THEN <<Word(arg.entity)>>
    ELSE IF arg.tag = "Variable" THEN <<Word(arg.name)>>
    ELSE format_predicate(arg)

format_predicate(pred) ==
    LET args == [i \in DOMAIN pred.roles |->
                    <<Word(pred.roles[i][1]), Sym(":")>> \o format_arg(pred.roles[i][2])]
    IN  <<Word(pred.function_name), Sym("(")>> \o Join(args, <<Sym(",")>>) \o <<Sym(")")>>

\* ------------------------------------------------------------------------
\* Strings: strip, split, and the matches of the parser's regular
\* expressions, on token sequences
\* ------------------------------------------------------------------------

RECURSIVE lstrip(_)
lstrip(line) ==
    IF line # <<>> /\ Head(line) = Space THEN lstrip(Tail(line)) ELSE line

RECURSIVE rstrip(_)
rstrip(line) ==
    IF line # <<>> /\ line[Len(line)] = Space
    THEN rstrip(SubSeq(line, 1, Len(line) - 1))
    ELSE line

strip(line) == rstrip(lstrip(line))

\* text.strip().split("\n"): the blank lines at both ends of the text go,
\* with the blanks before the first and after the last remaining token
strip_split(t) ==
    LET nonblank == {i \in DOMAIN t : strip(t[i]) # <<>>} IN
    IF nonblank = {} THEN << <<>> >>
    ELSE LET lo == CHOOSE i \in nonblank : \A j \in nonblank : i <= j
             hi == CHOOSE i \in nonblank : \A j \in nonblank : j <= i
         IN  [k \in 1..(hi - lo + 1) |->
                 LET line == t[lo + k - 1]
                     left == IF k = 1 THEN lstrip(line) ELSE line
                 IN  IF k = hi - lo + 1 THEN rstrip(left) ELSE left]

\* the first index from `from` on where tok stands, or 0
IndexOf(line, tok, from) ==
    LET found == {i \in DOMAIN line : i >= from /\ line[i] = tok} IN
    IF found = {} THEN 0 ELSE CHOOSE i \in found : \A j \in found : i <= j

LastIndexOf(line, tok) ==
    LET found == {i \in DOMAIN line : line[i] = tok} IN
    IF found = {} THEN 0 ELSE CHOOSE i \in found : \A j \in found : j <= i

RECURSIVE split(_, _)
split(line, sep) ==
    LET i == IndexOf(line, sep, 1) IN
    IF i = 0 THEN <<line>>
    ELSE <<SubSeq(line, 1, i - 1)>> \o split(SubSeq(line, i + 1, Len(line)), sep)

\* line.startswith(keyword + " ")
startswith(line, keyword) ==
    Len(line) > 1 /\ line[1] = keyword /\ line[2] # Sym("(")

\* re.match(r"(\w+)\s*:\s*(\w+)", toks): anchored at the start only
match_name_colon_name(toks) ==
    Len(toks) >= 3 /\ IsWord(toks[1]) /\ toks[2] = Sym(":") /\ IsWord(toks[3])

\* float(s) of a number in decimal form: values are <<m, e>> for m * 10^e
\* with no trailing zero in m, and <<0, 0>> for zero
RECURSIVE float(_, _)
float(m, e) ==
    IF m = 0 THEN <<0, 0>>
    ELSE IF m % 10 = 0 THEN float(m \div 10, e + 1)
    ELSE <<m, e>>

RECURSIVE Digits(_)
Digits(m) == IF m < 10 THEN 1 ELSE 1 + Digits(m \div 10)

RECURSIVE Pow10(_)
Pow10(n) == IF n = 0 THEN 1 ELSE 10 * Pow10(n - 1)

\* f"{weight}", the repr of a float: the shortest digits, with an exponent
\* when the decimal exponent of the first digit is below -4 or at least 16,
\* and with ".0" on a whole number
repr(weight) ==
    LET m == weight[1]
        e == weight[2]
        exponent == e + Digits(m) - 1
    IN  IF m = 0 THEN Number("dec", 0, -1)
        ELSE IF exponent < -4 \/ exponent >= 16 THEN Number("exp", m, e)
        ELSE IF e >= 0 THEN Number("dec", m * Pow10(e + 1), -1)
        ELSE Number("dec", m, e)

\* ------------------------------------------------------------------------
\* The DSL parser (qbbn/core/logical_lang.py).  An operation that may raise
\* returns [ok, ...]: the ValueError's message is <<kind, detail>>.  The
\* logical primitives the parser builds are those of world/core/logic.py
\* (a Variable has a type and a name).
\* ------------------------------------------------------------------------

Rule(premises, conclusion, variables, weight) ==
    [premises |-> premises, conclusion |-> conclusion,
     variables |-> variables, weight |-> weight]

LogicalDocument ==
    [entities |-> <<>>, types |-> <<>>, propositions |-> <<>>,
     rules |-> <<>>, queries |-> <<>>]

ParseError(message, line_num, line) ==
    [message |-> message, line_num |-> line_num, line |-> line]

\* LogicalParser(): pc is the position of parse() ("idle" before the call,
\* "loop" at the head of the loop over the lines, "returned", "raised")
LogicalParser ==
    [pc |-> "idle", doc |-> LogicalDocument, lines |-> <<>>, i |-> 0,
     error |-> NoValue]

Return(value) == [ok |-> TRUE, value |-> value]

ValueError(kind, detail) == [ok |-> FALSE, message |-> <<kind, detail>>]

\* the exception leaves the parser's document as it was when it was raised
Raised(doc, error) == [ok |-> FALSE, doc |-> doc, message |-> error.message]

Returned(doc) == [ok |-> TRUE, doc |-> doc]

\* a Type is modelled by its name
get_or_create_type(doc, name) ==
    IF DictHas(doc.types, name) THEN doc
    ELSE [doc EXCEPT !.types = Append(@, <<name, name>>)]

parse_entity(doc, line) ==
    IF ~match_name_colon_name(Tail(line))
    THEN Raised(doc, ValueError("Expected: entity <name> : <type>", <<>>))
    ELSE LET name == line[2][2]
             type_name == line[4][2]
             typed == get_or_create_type(doc, type_name)
         IN  Returned([typed EXCEPT
                          !.entities = DictSet(@, name, Constant(name, type_name))])

\* A mutant of resolve_arg: a declared entity is looked up before the
\* variables of the rule.
resolve_arg_entity_first(doc, arg_name, allow_variables, variables) ==
    IF DictHas(doc.entities, arg_name) THEN Return(DictGet(doc.entities, arg_name))
    ELSE IF DictHas(variables, arg_name)
    THEN Return(DictGet(variables, arg_name))
    ELSE IF allow_variables THEN ValueError("Unknown variable", arg_name)
    ELSE ValueError("Unknown entity", arg_name)

\* A mutant of resolve_arg: a name that is not declared becomes an entity
\* on the spot, as a type does.
resolve_arg_creating(doc, arg_name, allow_variables, variables) ==
    IF DictHas(variables, arg_name) THEN Return(DictGet(variables, arg_name))
    ELSE IF DictHas(doc.entities, arg_name)
    THEN Return(DictGet(doc.entities, arg_name))
    ELSE IF allow_variables THEN ValueError("Unknown variable", arg_name)
    ELSE Return(Constant(arg_name, "entity"))

\* the argument a name stands for: a variable of the rule first, then a
\* declared entity
resolve_arg(doc, arg_name, allow_variables, variables) ==
    IF DictHas(variables, arg_name) THEN Return(DictGet(variables, arg_name))
    ELSE IF DictHas(doc.entities, arg_name)
    THEN Return(DictGet(doc.entities, arg_name))
    ELSE IF allow_variables THEN ValueError("Unknown variable", arg_name)
    ELSE ValueError("Unknown entity", arg_name)

\* the loop over args_str.split(",")
RECURSIVE parse_roles(_, _, _, _)
parse_roles(doc, parts, allow_variables, variables) ==
    IF parts = <<>> THEN Return(<<>>)
    ELSE LET arg_part == strip(Head(parts)) IN
         IF ~match_name_colon_name(arg_part)
         THEN ValueError("Expected role: arg", arg_part)
         ELSE LET role == arg_part[1][2]
                  arg == resolve_arg(doc, arg_part[3][2], allow_variables, variables)
              IN  IF ~arg.ok THEN arg
                  ELSE LET rest == parse_roles(doc, Tail(parts),
                                               allow_variables, variables)
                       IN  IF ~rest.ok THEN rest
                           ELSE Return(<< <<role, arg.value>> >> \o rest.value)

\* re.match(r"(\w+)\s*\((.*)\)", text): the match starts at the start of
\* the text and ends at its last ")"; what follows is not looked at
parse_predicate(doc, text_, allow_variables, variables) ==
    LET toks == strip(text_)
        close == LastIndexOf(toks, Sym(")"))
    IN  IF ~(Len(toks) >= 3 /\ IsWord(toks[1]) /\ toks[2] = Sym("(") /\ close >= 3)
        THEN ValueError("Expected predicate", <<>>)
        ELSE LET args_str == strip(SubSeq(toks, 3, close - 1))
                 roles == IF args_str = <<>> THEN Return(<<>>)
                          ELSE parse_roles(doc, split(args_str, Sym(",")),
                                           allow_variables, variables)
             IN  IF ~roles.ok THEN roles
                 ELSE Return(Predicate(toks[1][2], roles.value))

parse_proposition(doc, line) ==
    LET pred == parse_predicate(doc, line, FALSE, <<>>) IN
    IF ~pred.ok THEN Raised(doc, pred)
    ELSE Returned([doc EXCEPT !.propositions = Append(@, pred.value)])

parse_query(doc, line) ==
    LET pred == parse_predicate(doc, Tail(line), FALSE, <<>>) IN
    IF ~pred.ok THEN Raised(doc, pred)
    ELSE Returned([doc EXCEPT !.queries = Append(@, pred.value)])

\* the loop over var_decls.split(","); acc is [ok, doc, variables, var_list]
RECURSIVE parse_var_decls(_, _)
parse_var_decls(parts, acc) ==
    IF parts = <<>> THEN acc
    ELSE LET var_decl == strip(Head(parts)) IN
         IF var_decl = <<>> THEN parse_var_decls(Tail(parts), acc)
         ELSE IF ~match_name_colon_name(var_decl)
         THEN Raised(acc.doc, ValueError("Expected var:type", var_decl))
         ELSE LET var_name == var_decl[1][2]
                  type_name == var_decl[3][2]
                  var == Variable(type_name, var_name)
              IN  parse_var_decls(Tail(parts),
                     [ok |-> TRUE,
                      doc |-> get_or_create_type(acc.doc, type_name),
                      variables |-> DictSet(acc.variables, var_name, var),
                      var_list |-> Append(acc.var_list, var)])

\* the loop over premise_str.split("&")
RECURSIVE parse_premises(_, _, _)
parse_premises(doc, parts, variables) ==
    IF parts = <<>> THEN Return(<<>>)
    ELSE LET pred == parse_predicate(doc, strip(Head(parts)), TRUE, variables) IN
         IF ~pred.ok THEN pred
         ELSE LET rest == parse_premises(doc, Tail(parts), variables) IN
              IF ~rest.ok THEN rest
              ELSE Return(<<pred.value>> \o rest.value)

\* re.search(r'\[(\d+\.?\d*)\]\s*$', line): a number in decimal form
\* between brackets at the end of the line
weight_match(line) ==
    LET n == Len(line) IN
    /\ n >= 3
    /\ line[n] = Sym("]")
    /\ line[n - 1][1] = "number"
    /\ line[n - 1][2] = "dec"
    /\ line[n - 2] = Sym("[")

\* re.match(r"rule\s*\[(.*?)\]\s*:\s*(.+)", line): the index of the first
\* "]" that a ":" and a body follow, or 0
var_match(line) ==
    IF ~(Len(line) >= 2 /\ line[1] = Word("rule") /\ line[2] = Sym("["))
    THEN 0
    ELSE LET found == {j \in DOMAIN line :
                          /\ j >= 3
                          /\ line[j] = Sym("]")
                          /\ j + 2 <= Len(line)
                          /\ line[j + 1] = Sym(":")}
         IN  IF found = {} THEN 0
             ELSE CHOOSE j \in found : \A k \in found : j <= k

parse_rule(doc, line_) ==
    LET matched == weight_match(line_)
        n == Len(line_)
        weight == IF matched THEN float(line_[n - 1][3], line_[n - 1][4])
                  ELSE <<1, 0>>
        line == IF matched THEN strip(SubSeq(line_, 1, n - 3)) ELSE line_
        close == var_match(line)
    IN  IF close = 0 THEN Raised(doc, ValueError("Expected: rule", <<>>))
        ELSE
        LET var_decls == SubSeq(line, 3, close - 1)
            body == SubSeq(line, close + 2, Len(line))
            decls == parse_var_decls(split(var_decls, Sym(",")),
                        [ok |-> TRUE, doc |-> doc,
                         variables |-> <<>>, var_list |-> <<>>])
        IN  IF ~decls.ok THEN decls
            ELSE
            LET arrow == IndexOf(body, Sym("->"), 1) IN
            IF arrow = 0
            THEN Raised(decls.doc, ValueError("Expected: premise -> conclusion", <<>>))
            ELSE
            LET premise_str == SubSeq(body, 1, arrow - 1)
                conclusion_str == SubSeq(body, arrow + 1, Len(body))
                premises == parse_premises(decls.doc, split(premise_str, Sym("&")),
                                           decls.variables)
            IN  IF ~premises.ok THEN Raised(decls.doc, premises)
                ELSE
                LET conclusion == parse_predicate(decls.doc, strip(conclusion_str),
                                                  TRUE, decls.variables)
                IN  IF ~conclusion.ok THEN Raised(decls.doc, conclusion)
                    ELSE Returned([decls.doc EXCEPT !.rules =
                            Append(@, Rule(premises.value, conclusion.value,
                                           decls.var_list, weight))])

parse_line(doc, line) ==
    IF startswith(line, Word("entity")) THEN parse_entity(doc, line)
    ELSE IF startswith(line, Word("rule")) THEN parse_rule(doc, line)
    ELSE IF startswith(line, Sym("?")) THEN parse_query(doc, line)
    ELSE IF \E i \in DOMAIN line : line[i] = Sym("(")
    THEN parse_proposition(doc, line)
    ELSE Raised(doc, ValueError("Unknown syntax", line))

\* parse(text) up to the loop: a new document, the lines of the stripped text
parse_start(t) ==
    [pc |-> "loop", doc |-> LogicalDocument, lines |-> strip_split(t), i |-> 1,
     error |-> NoValue]

\* one pass of the loop of parse(text); the call returns after the last line
parse_step(p) ==
    LET line == strip(p.lines[p.i])
        next == IF p.i = Len(p.lines)
                THEN [p EXCEPT !.pc = "returned"]
                ELSE [p EXCEPT !.i = @ + 1]
    IN  IF line = <<>> \/ Head(line) = Sym("#") THEN next
        ELSE LET result == parse_line(p.doc, line) IN
             IF result.ok THEN [next EXCEPT !.doc = result.doc]
             ELSE [p EXCEPT !.pc = "raised", !.doc = result.doc,
                            !.error = ParseError(result.message, p.i, line)]

\* ------------------------------------------------------------------------
\* The formatter (qbbn/core/logical_lang.py)
\* ------------------------------------------------------------------------

format_rule(rule) ==
    LET vars_str == Join([i \in DOMAIN rule.variables |->
                            <<Word(rule.variables[i].name), Sym(":"),
                              Word(rule.variables[i].type)>>], <<Sym(",")>>)
        premises_str == Join([i \in DOMAIN rule.premises |->
                                format_predicate(rule.premises[i])], <<Sym("&")>>)
        weight_str == IF rule.weight # <<1, 0>>
                      THEN <<Sym("["), repr(rule.weight), Sym("]")>>
                      ELSE <<>>
    IN  <<Word("rule"), Sym("[")>> \o vars_str \o <<Sym("]"), Sym(":")>>
        \o premises_str \o <<Sym("->")>> \o format_predicate(rule.conclusion)
        \o weight_str

\* "\n".join(lines): the text of no lines is the empty text, one empty line
format_document(doc) ==
    LET entities ==
            IF doc.entities = <<>> THEN <<>>
            ELSE << <<Sym("#"), Word("Entities")>> >>
                 \o [i \in DOMAIN doc.entities |->
                       <<Word("entity"), Word(doc.entities[i][1]), Sym(":"),
                         Word(doc.entities[i][2].type)>>]
                 \o << <<>> >>
        propositions ==
            IF doc.propositions = <<>> THEN <<>>
            ELSE << <<Sym("#"), Word("Propositions")>> >>
                 \o [i \in DOMAIN doc.propositions |->
                       format_predicate(doc.propositions[i])]
                 \o << <<>> >>
        rules ==
            IF doc.rules = <<>> THEN <<>>
            ELSE << <<Sym("#"), Word("Rules")>> >>
                 \o [i \in DOMAIN doc.rules |-> format_rule(doc.rules[i])]
                 \o << <<>> >>
        queries ==
            IF doc.queries = <<>> THEN <<>>
            ELSE << <<Sym("#"), Word("Queries")>> >>
                 \o [i \in DOMAIN doc.queries |->
                       <<Sym("?")>> \o format_predicate(doc.queries[i])]
        lines == entities \o propositions \o rules \o queries
    IN  IF lines = <<>> THEN << <<>> >> ELSE lines

\* ------------------------------------------------------------------------
\* Factor graph (qbbn/core/factor_graph.py)
\* ------------------------------------------------------------------------

VariableNode(key) == [key |-> key, belief |-> <<Half, Half>>, is_evidence |-> FALSE]

set_evidence(node, value) ==
    [node EXCEPT !.is_evidence = TRUE,
                 !.belief = IF value THEN <<Zero, One>> ELSE <<One, Zero>>]

RECURSIVE init_messages_from(_, _)
init_messages_from(keys, messages) ==
    IF keys = <<>> THEN messages
    ELSE init_messages_from(Tail(keys), DictSet(messages, Head(keys), <<One, One>>))

init_messages(var_keys) == init_messages_from(var_keys, <<>>)

FactorNode(factor_id, var_keys, weight, factor_type) ==
    [factor_id |-> factor_id, var_keys |-> var_keys, weight |-> weight,
     factor_type |-> factor_type, messages |-> init_messages(var_keys)]

EmptyGraph == [variables |-> <<>>, factors |-> <<>>, var_to_factors |-> <<>>]

\* A mutant of add_variable: an existing node is replaced by a fresh one.
add_variable_fresh(g, key) ==
    IF DictHas(g.variables, key)
    THEN [g EXCEPT !.variables = DictSet(@, key, VariableNode(key))]
    ELSE [g EXCEPT !.variables = Append(@, <<key, VariableNode(key)>>),
                   !.var_to_factors = Append(@, <<key, <<>> >>)]

add_variable(g, key) ==
    IF DictHas(g.variables, key) THEN g
    ELSE [g EXCEPT !.variables = Append(@, <<key, VariableNode(key)>>),
                   !.var_to_factors = Append(@, <<key, <<>> >>)]

RECURSIVE add_variables(_, _)
add_variables(g, keys) ==
    IF keys = <<>> THEN g ELSE add_variables(add_variable(g, Head(keys)), Tail(keys))

\* self.var_to_factors[key].append(factor_idx) for each key in turn
RECURSIVE append_factor_index(_, _, _)
append_factor_index(v2f, keys, factor_idx) ==
    IF keys = <<>> THEN v2f
    ELSE append_factor_index(
             DictSet(v2f, Head(keys), Append(DictGet(v2f, Head(keys)), factor_idx)),
             Tail(keys), factor_idx)

\* A mutant of add_implication_factor: the conclusion's key comes first.
add_implication_factor_reversed(g, premise_key, conclusion_key, weight) ==
    LET g1 == add_variables(g, <<premise_key, conclusion_key>>)
        factor == FactorNode(Len(g1.factors), <<conclusion_key, premise_key>>,
                             weight, "implication")
    IN  [g1 EXCEPT !.factors = Append(@, factor),
                   !.var_to_factors = append_factor_index(
                        @, <<premise_key, conclusion_key>>, Len(g1.factors))]

add_implication_factor(g, premise_key, conclusion_key, weight) ==
    LET g1 == add_variables(g, <<premise_key, conclusion_key>>)
        factor == FactorNode(Len(g1.factors), <<premise_key, conclusion_key>>,
                             weight, "implication")
    IN  [g1 EXCEPT !.factors = Append(@, factor),
                   !.var_to_factors = append_factor_index(
                        @, <<premise_key, conclusion_key>>, Len(g1.factors))]

add_conjunction_factor(g, premise_keys, conclusion_key, weight) ==
    LET all_keys == premise_keys \o <<conclusion_key>>
        g1 == add_variables(g, all_keys)
        factor == FactorNode(Len(g1.factors), all_keys, weight, "conjunction_implication")
    IN  [g1 EXCEPT !.factors = Append(@, factor),
                   !.var_to_factors = append_factor_index(@, all_keys, Len(g1.factors))]

graph_set_evidence(g, key, value) ==
    IF DictHas(g.variables, key)
    THEN [g EXCEPT !.variables = DictSet(@, key, set_evidence(DictGet(@, key), value))]
    ELSE g

\* the body of the loop of from_knowledge_base for one grounded clause
add_clause(g, clause) ==
    IF is_fact(clause)
    THEN LET key == format_predicate(clause.conclusion) IN
         graph_set_evidence(add_variable(g, key), key, TRUE)
    ELSE LET premise_keys == [i \in DOMAIN clause.premises |->
                                 format_predicate(clause.premises[i])]
             conclusion_key == format_predicate(clause.conclusion)
         IN  IF Len(premise_keys) = 1
             THEN add_implication_factor(g, premise_keys[1], conclusion_key, clause.weight)
             ELSE add_conjunction_factor(g, premise_keys, conclusion_key, clause.weight)

RECURSIVE add_clauses(_, _)
add_clauses(g, clauses) ==
    IF clauses = <<>> THEN g ELSE add_clauses(add_clause(g, Head(clauses)), Tail(clauses))

from_knowledge_base(k) == add_clauses(EmptyGraph, ground_all(k))

\* ------------------------------------------------------------------------
\* Belief propagation (qbbn/core/factor_graph.py belief_propagation)
\* ------------------------------------------------------------------------

RECURSIVE Pow2(_)
Pow2(n) == IF n = 0 THEN 1 ELSE 2 * Pow2(n - 1)

\* (bits >> i) & 1
Bit(bits, i) == (bits \div Pow2(i)) % 2

\* assignment = {target_var: target_val}; assignment[ov] = (bits >> i) & 1
\* for i, ov in enumerate(other_vars): a later entry of a repeated key wins
make_assignment(target_var, target_val, other_vars, bits) ==
    [k \in {target_var} \cup Range(other_vars) |->
        IF k \in Range(other_vars)
        THEN Bit(bits, (CHOOSE i \in DOMAIN other_vars :
                           /\ other_vars[i] = k
                           /\ \A j \in DOMAIN other_vars : other_vars[j] = k => j <= i) - 1)
        ELSE target_val]

\* A mutant of compute_factor_potential: the penalty is given when the
\* conclusion is true instead of false.
compute_factor_potential_flipped(factor, assignment) ==
    IF factor.factor_type = "implication"
    THEN IF assignment[factor.var_keys[1]] = 1 /\ assignment[factor.var_keys[2]] = 1
         THEN exp_neg(factor.weight) ELSE One
    ELSE One

\* A mutant of compute_factor_potential: a conjunction is penalized as soon
\* as one premise is true and the conclusion false.
compute_factor_potential_any_premise(factor, assignment) ==
    IF factor.factor_type \in {"implication", "conjunction_implication"}
    THEN LET n == Len(factor.var_keys) IN
         IF /\ \E i \in 1..(n - 1) : assignment[factor.var_keys[i]] = 1
            /\ assignment[factor.var_keys[n]] = 0
         THEN exp_neg(factor.weight) ELSE One
    ELSE One

compute_factor_potential(factor, assignment) ==
    IF factor.factor_type = "implication"
    THEN LET premise_val == assignment[factor.var_keys[1]]
             conclusion_val == assignment[factor.var_keys[2]]
         IN  IF premise_val = 1 /\ conclusion_val = 0
             THEN exp_neg(factor.weight) ELSE One
    ELSE IF factor.factor_type = "conjunction_implication"
    THEN LET n == Len(factor.var_keys)
             all_premises_true == \A i \in 1..(n - 1) : assignment[factor.var_keys[i]] = 1
             conclusion_val == assignment[factor.var_keys[n]]
         IN  IF all_premises_true /\ conclusion_val = 0
             THEN exp_neg(factor.weight) ELSE One
    ELSE One

\* var_to_factor_msgs.get((ov, factor.factor_id), [1.0, 1.0])
msgs_get(msgs, key) == IF DictHas(msgs, key) THEN DictGet(msgs, key) ELSE <<One, One>>

\* A mutant of msg_product: the message of a neighbour is taken from the
\* factor's own messages, which the running sweep is writing.
RECURSIVE msg_product_own_messages(_, _, _, _)
msg_product_own_messages(factor, other_vars, assignment, msgs) ==
    IF other_vars = <<>> THEN One
    ELSE RMul(DictGet(factor.messages, Head(other_vars))[assignment[Head(other_vars)] + 1],
              msg_product_own_messages(factor, Tail(other_vars), assignment, msgs))

RECURSIVE msg_product(_, _, _, _)
msg_product(factor, other_vars, assignment, msgs) ==
    IF other_vars = <<>> THEN One
    ELSE RMul(msgs_get(msgs, <<Head(other_vars), factor.factor_id>>)[assignment[Head(other_vars)] + 1],
              msg_product(factor, Tail(other_vars), assignment, msgs))

\* the sum over bits in range(2 ** n_other), for bits < upto
RECURSIVE message_total(_, _, _, _, _, _)
message_total(factor, target_var, target_val, other_vars, msgs, upto) ==
    IF upto = 0 THEN Zero
    ELSE LET assignment == make_assignment(target_var, target_val, other_vars, upto - 1)
         IN  RAdd(message_total(factor, target_var, target_val, other_vars, msgs, upto - 1),
                  RMul(compute_factor_potential(factor, assignment),
                       msg_product(factor, other_vars, assignment, msgs)))

\* A mutant of normalize: the pair is left as computed.
normalize_skipped(msg) == msg

\* if msg_sum > 0: new_msg = [new_msg[0] / msg_sum, new_msg[1] / msg_sum];
\* a sum above MaxMagnitude makes the result not representable
normalize(msg) ==
    LET msg_sum == RAdd(msg[1], msg[2]) IN
    IF ~IsRep(msg_sum) THEN <<NotRepresentable, NotRepresentable>>
    ELSE IF RPositive(msg_sum) THEN <<RDiv(msg[1], msg_sum), RDiv(msg[2], msg_sum)>>
    ELSE msg

\* the normalized factor -> variable message, before damping
factor_message(factor, target_var, msgs) ==
    LET other_vars == SelectSeq(factor.var_keys, LAMBDA v : v # target_var)
        total(val) == message_total(factor, target_var, val, other_vars, msgs,
                                    Pow2(Len(other_vars)))
    IN  normalize(<<total(0), total(1)>>)

\* A mutant of damp: the previous message is ignored.
damp_none(damping, old_msg, new_msg) == new_msg

damp(damping, old_msg, new_msg) ==
    <<RAdd(RMul(damping, old_msg[1]), RMul(ROneMinus(damping), new_msg[1])),
      RAdd(RMul(damping, old_msg[2]), RMul(ROneMinus(damping), new_msg[2]))>>

\* The body of the factor -> variable sweep for the factor at position f
\* and the target at position t of its var_keys. st = [factors, max_change].
factor_visit(st, msgs, damping, f, t) ==
    LET factor == st.factors[f]
        target_var == factor.var_keys[t]
        new_msg == factor_message(factor, target_var, msgs)
        old_msg == DictGet(factor.messages, target_var)
        damped_msg == damp(damping, old_msg, new_msg)
        change == RAdd(RAbsDiff(damped_msg[1], old_msg[1]),
                       RAbsDiff(damped_msg[2], old_msg[2]))
    IN  [factors |-> [st.factors EXCEPT ![f].messages =
                          DictSet(@, target_var, damped_msg)],
         max_change |-> RMax(st.max_change, change)]

\* The factor -> variable sweep, visiting the factors and, in each, the
\* entries of var_keys in order.
RECURSIVE factor_sweep(_, _, _, _, _)
factor_sweep(st, msgs, damping, f, t) ==
    IF f > Len(st.factors) THEN st
    ELSE IF t > Len(st.factors[f].var_keys)
    THEN factor_sweep(st, msgs, damping, f + 1, 1)
    ELSE factor_sweep(factor_visit(st, msgs, damping, f, t), msgs, damping, f, t + 1)

\* the product of the messages to var_key of the factors in factor_indices
\* other than skip (skip = -1: of all of them)
RECURSIVE incoming_product(_, _, _, _)
incoming_product(factors, var_key, factor_indices, skip) ==
    IF factor_indices = <<>> THEN <<One, One>>
    ELSE LET rest == incoming_product(factors, var_key, Tail(factor_indices), skip)
             incoming == DictGet(factors[Head(factor_indices) + 1].messages, var_key)
         IN  IF Head(factor_indices) = skip THEN rest
             ELSE <<RMul(rest[1], incoming[1]), RMul(rest[2], incoming[2])>>

\* the variable -> factor message of var_key to factor fi
variable_message(g, var_key, fi) ==
    LET var == DictGet(g.variables, var_key) IN
    IF var.is_evidence THEN var.belief
    ELSE normalize(incoming_product(g.factors, var_key,
                                    DictGet(g.var_to_factors, var_key), fi))

\* the (var_key, fi) pairs of var_to_factors, in iteration order
message_keys(g) ==
    Flatten([i \in DOMAIN g.var_to_factors |->
                [j \in DOMAIN g.var_to_factors[i][2] |->
                    <<g.var_to_factors[i][1], g.var_to_factors[i][2][j]>>]])

\* var_to_factor_msgs[(var_key, fi)] = [1.0, 1.0] for each pair in turn
RECURSIVE init_messages_for(_, _)
init_messages_for(msgs, keys) ==
    IF keys = <<>> THEN msgs
    ELSE init_messages_for(DictSet(msgs, Head(keys), <<One, One>>), Tail(keys))

\* A mutant of init_var_to_factor_msgs: the initial messages are [1.0, 0.0].
RECURSIVE init_messages_biased(_, _)
init_messages_biased(msgs, keys) ==
    IF keys = <<>> THEN msgs
    ELSE init_messages_biased(DictSet(msgs, Head(keys), <<One, Zero>>), Tail(keys))

init_var_to_factor_msgs_biased(g) == init_messages_biased(<<>>, message_keys(g))

\* var_to_factor_msgs at the start of a call
init_var_to_factor_msgs(g) == init_messages_for(<<>>, message_keys(g))

RECURSIVE variable_sweep_for(_, _, _)
variable_sweep_for(g, msgs, keys) ==
    IF keys = <<>> THEN msgs
    ELSE variable_sweep_for(
             g, DictSet(msgs, Head(keys), variable_message(g, Head(keys)[1], Head(keys)[2])),
             Tail(keys))

variable_sweep(g, msgs) == variable_sweep_for(g, msgs, message_keys(g))

\* A mutant of update_belief: a node whose belief has been computed is
\* clamped like evidence.
update_belief_clamping(g, node) ==
    IF node.is_evidence THEN node
    ELSE LET belief == incoming_product(g.factors, node.key,
                                        DictGet(g.var_to_factors, node.key), -1)
         IN  [node EXCEPT !.belief = normalize(belief), !.is_evidence = TRUE]

\* A mutant of update_belief: an evidence node is updated like any other.
update_belief_unguarded(g, node) ==
    LET belief == incoming_product(g.factors, node.key,
                                   DictGet(g.var_to_factors, node.key), -1)
    IN  IF RPositive(RAdd(belief[1], belief[2])) \/ ~IsRep(RAdd(belief[1], belief[2]))
        THEN [node EXCEPT !.belief = normalize(belief)] ELSE node

update_belief(g, node) ==
    IF node.is_evidence THEN node
    ELSE LET belief == incoming_product(g.factors, node.key,
                                        DictGet(g.var_to_factors, node.key), -1)
         IN  IF RPositive(RAdd(belief[1], belief[2])) \/ ~IsRep(RAdd(belief[1], belief[2]))
             THEN [node EXCEPT !.belief = normalize(belief)] ELSE node

\* the entry BPTrace.record makes: P(true) of every variable and of every
\* factor -> variable message; the key f"f{factor_id}->{var_key}" is the
\* pair <<factor_id, var_key>>
trace_entry(iteration, g) ==
    [iteration |-> iteration,
     beliefs |-> [i \in DOMAIN g.variables |->
                    <<g.variables[i][1], g.variables[i][2].belief[2]>>],
     factor_messages |->
        Flatten([f \in DOMAIN g.factors |->
                   [j \in DOMAIN g.factors[f].messages |->
                       << <<g.factors[f].factor_id, g.factors[f].messages[j][1]>>,
                          g.factors[f].messages[j][2][2] >>]])]

\* A mutant of record: the entry takes the place of the last one.
record_overwriting(iterations, iteration, g) ==
    IF iterations = <<>> THEN <<trace_entry(iteration, g)>>
    ELSE [iterations EXCEPT ![Len(iterations)] = trace_entry(iteration, g)]

\* BPTrace.record(iteration, graph, messages): iterations is the list of
\* the entries so far
record(iterations, iteration, g) == Append(iterations, trace_entry(iteration, g))

\* one iteration of the loop: [graph, msgs, max_change]
bp_iteration(g, msgs, damping) ==
    LET swept == factor_sweep([factors |-> g.factors, max_change |-> Zero],
                              msgs, damping, 1, 1)
        g1 == [g EXCEPT !.factors = swept.factors]
        msgs1 == variable_sweep(g1, msgs)
        g2 == [g1 EXCEPT !.variables =
                   [i \in DOMAIN @ |-> <<@[i][1], update_belief(g1, @[i][2])>>]]
    IN  [graph |-> g2, msgs |-> msgs1, max_change |-> swept.max_change]

\* every number of the result of an iteration is representable
Representable(r) ==
    /\ IsRep(r.max_change)
    /\ \A i \in DOMAIN r.msgs : IsRep(r.msgs[i][2][1]) /\ IsRep(r.msgs[i][2][2])
    /\ \A i \in DOMAIN r.graph.variables :
          /\ IsRep(r.graph.variables[i][2].belief[1])
          /\ IsRep(r.graph.variables[i][2].belief[2])
    /\ \A f \in DOMAIN r.graph.factors :
          \A i \in DOMAIN r.graph.factors[f].messages :
             /\ IsRep(r.graph.factors[f].messages[i][2][1])
             /\ IsRep(r.graph.factors[f].messages[i][2][2])

\* belief_propagation(g, iterations, damping) as a whole, from a call's
\* initial messages: [graph, ran, ok]; ok is FALSE when a number of the run
\* is not representable
RECURSIVE bp_loop(_, _, _, _, _)
bp_loop(g, msgs, damping, iterations, ran) ==
    IF ran = iterations THEN [graph |-> g, ran |-> ran, ok |-> TRUE]
    ELSE LET r == bp_iteration(g, msgs, damping) IN
         IF ~Representable(r) THEN [graph |-> g, ran |-> ran, ok |-> FALSE]
         ELSE IF BelowThreshold(r.max_change)
         THEN [graph |-> r.graph, ran |-> ran + 1, ok |-> TRUE]
         ELSE bp_loop(r.graph, r.msgs, damping, iterations, ran + 1)

belief_propagation(g, iterations, damping) ==
    bp_loop(g, init_var_to_factor_msgs(g), damping, iterations, 0)

\* A mutant of query: the other component of the belief is returned.
query_prob_false(g, key) ==
    IF DictHas(g.variables, key) THEN DictGet(g.variables, key).belief[1]
    ELSE Zero

\* query(graph, key): prob_true is belief[1] of the Python list
query(g, key) ==
    IF DictHas(g.variables, key) THEN DictGet(g.variables, key).belief[2]
    ELSE Zero

\* ------------------------------------------------------------------------
\* Inputs of the knowledge-base specification
\* ------------------------------------------------------------------------

MaxClauses == 2

\* weights are decimal floats <<m, e>> standing for m * 10^e
W(m, e) == <<m, e>>

ca == Constant("a", "person")
cb == Constant("b", "animal")
vx == Variable("person", "x")
vw == Variable("person", "w")
vy == Variable("animal", "y")
vz == Variable("alien", "z")
vu == Variable("person", "u")

P1(fn, arg) == Predicate(fn, << <<"theme", arg>> >>)
P2(fn, arg1, arg2) == Predicate(fn, << <<"agent", arg1>>, <<"theme", arg2>> >>)

\* the entity dicts a KnowledgeBase is created with
EntityDicts ==
    { <<>>,
      << <<"a", Constant("a", "person")>> >>,
      << <<"a", Constant("a", "person")>>, <<"b", Constant("b", "person")>> >>,
      << <<"a", Constant("a", "person")>>, <<"b", Constant("b", "animal")>> >>,
      << <<"b", Constant("b", "animal")>>, <<"a", Constant("a", "animal")>> >> }

FactInputs == { P1("man", ca), P1("pet", cb) }

\* [premises, conclusion, variables, weight] of the add_rule calls
RuleInputs ==
    { \* one variable
      [premises |-> <<P1("man", vx)>>, conclusion |-> P1("mortal", vx),
       variables |-> <<vx>>, weight |-> W(1, 0)],
      \* two variables of two types, two premises
      [premises |-> <<P1("man", vx), P1("pet", vy)>>, conclusion |-> P2("owns", vx, vy),
       variables |-> <<vx, vy>>, weight |-> W(5, -1)],
      \* two variables of one type
      [premises |-> <<P1("man", vx)>>, conclusion |-> P2("knows", vx, vw),
       variables |-> <<vx, vw>>, weight |-> W(2, 0)],
      \* no variable
      [premises |-> <<P1("man", ca)>>, conclusion |-> P1("mortal", ca),
       variables |-> <<>>, weight |-> W(2, 0)],
      \* a declared variable that occurs in no predicate
      [premises |-> <<P1("man", vx)>>, conclusion |-> P1("mortal", vx),
       variables |-> <<vx, vy>>, weight |-> W(1, 0)],
      \* a variable of a type without entities
      [premises |-> <<P1("grey", vz)>>, conclusion |-> P1("mortal", vz),
       variables |-> <<vz>>, weight |-> W(1, 0)],
      \* a variable declared twice
      [premises |-> <<P1("man", vx)>>, conclusion |-> P1("mortal", vx),
       variables |-> <<vx, vx>>, weight |-> W(1, 0)],
      \* an intensional (nested) argument
      [premises |-> <<P2("think", vx, P1("pet", vy))>>, conclusion |-> P1("mortal", vy),
       variables |-> <<vx, vy>>, weight |-> W(5, -1)],
      \* a variable that is used but not declared
      [premises |-> <<P1("man", vx)>>, conclusion |-> P1("mortal", vu),
       variables |-> <<vx>>, weight |-> W(1, 0)],
      \* the roles of the premise listed in another order in the conclusion
      [premises |-> <<P2("knows", vx, vw)>>,
       conclusion |-> Predicate("knows", << <<"theme", vw>>, <<"agent", vx>> >>),
       variables |-> <<vx, vw>>, weight |-> W(1, 0)] }

\* every variable of a premise or the conclusion is listed in `variables`
ListsItsVariables(clause) ==
    (UNION {Predicate_variables(clause.premises[i]) : i \in DOMAIN clause.premises}
        \cup Predicate_variables(clause.conclusion)) \subseteq Range(clause.variables)

Restrict(f, S) == [x \in S |-> f[x]]

\* the bindings a caller passes to ground(): the full bindings of
\* _all_bindings and their restrictions to some of the variables
PartialBindings(k, clause) ==
    LET bs == all_bindings(k, clause.variables) IN
    { Restrict(bs[i], S) : i \in DOMAIN bs, S \in SUBSET Range(clause.variables) }

\* ------------------------------------------------------------------------
\* The layer runner (qbbn/core/layers/runner.py) with the registry of
\* world/core/layers/__init__.py and a key-value store.  A layer is
\* [id, depends_on]; LAYERS is a dict from id to layer, in the order of
\* registration.  The store is [has_delete_data, data]: DocumentStore
\* (qbbn/core/document.py) has set_data, get_data and has_data but no
\* delete_data, RunStore (world/core/run.py) has all four.
\* ------------------------------------------------------------------------

Layer(id, depends_on) == [id |-> id, depends_on |-> depends_on]

LayerResult(success, data, message) ==
    [success |-> success, data |-> data, message |-> message]

\* register_layer for each layer in turn
RECURSIVE register_layers(_, _)
register_layers(registry, ls) ==
    IF ls = <<>> THEN registry
    ELSE register_layers(DictSet(registry, Head(ls).id, Head(ls)), Tail(ls))

\* get_layer(layer_id) for a registered layer
get_layer(registry, layer_id) == DictGet(registry, layer_id)

\* resolve_dependencies: st = [needed, order]
RECURSIVE visit(_, _, _)
RECURSIVE visit_each(_, _, _)
visit(registry, st, lid) ==
    IF lid \in st.needed THEN st
    ELSE LET after == visit_each(registry, st, get_layer(registry, lid).depends_on)
         IN  [needed |-> after.needed \cup {lid}, order |-> Append(after.order, lid)]

visit_each(registry, st, lids) ==
    IF lids = <<>> THEN st
    ELSE visit_each(registry, visit(registry, st, Head(lids)), Tail(lids))

resolve_dependencies(registry, layer_ids) ==
    visit_each(registry, [needed |-> {}, order |-> <<>>], layer_ids).order

\* the stage under which the data of a layer is stored, and the stage
\* f"{lid}_override" of its override
data_stage(lid) == <<lid, "">>
override_stage(lid) == <<lid, "_override">>

store_set_data(s, doc_id, stage, data) ==
    [s EXCEPT !.data = DictSet(@, <<doc_id, stage>>, data)]

store_has_data(s, doc_id, stage) == DictHas(s.data, <<doc_id, stage>>)

\* get_data of a stage that has data
store_get_data(s, doc_id, stage) == DictGet(s.data, <<doc_id, stage>>)

\* RunStore.delete_data
store_delete_data(s, doc_id, stage) ==
    [s EXCEPT !.data = SelectSeq(@, LAMBDA e : e[1] # <<doc_id, stage>>)]

\* layer.parse_dsl(text): the data the text stands for, or an exception
parse_dsl(layer, dsl_text) ==
    IF dsl_text = "malformed" THEN ValueError("parse error", dsl_text)
    ELSE Return([from |-> "dsl", layer |-> layer.id, text |-> dsl_text, inputs |-> <<>>])

\* layer.validate(data): the list of errors
validate(layer, data) == IF data.text = "invalid" THEN <<"invalid">> ELSE <<>>

\* layer.process(inputs, context): the annotator succeeds ("ok"), returns a
\* result without success ("fail") or raises ("raise")
process(layer, inputs, outcome) ==
    IF outcome = "ok"
    THEN LayerResult(TRUE, [from |-> "process", layer |-> layer.id, text |-> "",
                            inputs |-> inputs], "processed")
    ELSE IF outcome = "fail" THEN LayerResult(FALSE, NoValue, "failed")
    ELSE LayerResult(FALSE, NoValue, "error")

\* A mutant of run_layer: the cache is looked at before the override.
run_layer_cache_first(registry, st, doc_id, lid, force, outcome) ==
    LET layer == get_layer(registry, lid)
        deps == layer.depends_on
        missing == SelectSeq(deps, LAMBDA dep : ~store_has_data(st.store, doc_id, data_stage(dep)))
        inputs == [i \in DOMAIN deps |->
                      <<deps[i], store_get_data(st.store, doc_id, data_stage(deps[i]))>>]
    IN  IF ~force /\ store_has_data(st.store, doc_id, data_stage(lid))
        THEN [st EXCEPT !.results = DictSet(@, lid,
                 LayerResult(TRUE, store_get_data(st.store, doc_id, data_stage(lid)), "cached"))]
        ELSE IF store_has_data(st.store, doc_id, override_stage(lid))
        THEN LET data == parse_dsl(layer, store_get_data(st.store, doc_id, override_stage(lid)))
             IN  IF data.ok
                 THEN [store |-> store_set_data(st.store, doc_id, data_stage(lid), data.value),
                       results |-> DictSet(st.results, lid,
                                       LayerResult(TRUE, data.value, "from override"))]
                 ELSE [st EXCEPT !.results = DictSet(@, lid,
                          LayerResult(FALSE, NoValue, "override parse error"))]
        ELSE IF missing # <<>>
        THEN [st EXCEPT !.results = DictSet(@, lid, LayerResult(FALSE, NoValue, "missing deps"))]
        ELSE LET result == process(layer, inputs, outcome)
             IN  [store |-> IF result.success
                            THEN store_set_data(st.store, doc_id, data_stage(lid), result.data)
                            ELSE st.store,
                  results |-> DictSet(st.results, lid, result)]

\* The body of the loop of run() for the layer lid. st = [store, results].
run_layer(registry, st, doc_id, lid, force, outcome) ==
    LET layer == get_layer(registry, lid)
        deps == layer.depends_on
        missing == SelectSeq(deps, LAMBDA dep : ~store_has_data(st.store, doc_id, data_stage(dep)))
        inputs == [i \in DOMAIN deps |->
                      <<deps[i], store_get_data(st.store, doc_id, data_stage(deps[i]))>>]
    IN  IF store_has_data(st.store, doc_id, override_stage(lid))
        THEN LET data == parse_dsl(layer, store_get_data(st.store, doc_id, override_stage(lid)))
             IN  IF data.ok
                 THEN [store |-> store_set_data(st.store, doc_id, data_stage(lid), data.value),
                       results |-> DictSet(st.results, lid,
                                       LayerResult(TRUE, data.value, "from override"))]
                 ELSE [st EXCEPT !.results = DictSet(@, lid,
                          LayerResult(FALSE, NoValue, "override parse error"))]
        ELSE IF ~force /\ store_has_data(st.store, doc_id, data_stage(lid))
        THEN [st EXCEPT !.results = DictSet(@, lid,
                 LayerResult(TRUE, store_get_data(st.store, doc_id, data_stage(lid)), "cached"))]
        ELSE IF missing # <<>>
        THEN [st EXCEPT !.results = DictSet(@, lid, LayerResult(FALSE, NoValue, "missing deps"))]
        ELSE LET result == process(layer, inputs, outcome)
             IN  [store |-> IF result.success
                            THEN store_set_data(st.store, doc_id, data_stage(lid), result.data)
                            ELSE st.store,
                  results |-> DictSet(st.results, lid, result)]

RECURSIVE run_layers(_, _, _, _, _, _)
run_layers(registry, st, doc_id, all_layers, force, outcomes) ==
    IF all_layers = <<>> THEN st
    ELSE run_layers(registry,
                    run_layer(registry, st, doc_id, Head(all_layers), force,
                              outcomes[Head(all_layers)]),
                    doc_id, Tail(all_layers), force, outcomes)

\* LayerRunner.run(doc_id, layer_ids, force): [store, results]
run(registry, s, doc_id, layer_ids, force, outcomes) ==
    run_layers(registry, [store |-> s, results |-> <<>>], doc_id,
               resolve_dependencies(registry, layer_ids), force, outcomes)

\* LayerRunner._invalidate_downstream(doc_id, layer_id), from the i-th item
\* of LAYERS on: [store, raised]; the store without delete_data raises
\* AttributeError at the first layer that depends on layer_id
RECURSIVE invalidate_downstream(_, _, _, _, _)
invalidate_downstream(registry, st, doc_id, layer_id, i) ==
    IF st.raised \/ i > Len(registry) THEN st
    ELSE LET lid == registry[i][1]
             layer == registry[i][2]
         IN  IF layer_id \in Range(layer.depends_on)
             THEN IF ~st.store.has_delete_data THEN [st EXCEPT !.raised = TRUE]
                  ELSE invalidate_downstream(
                           registry,
                           invalidate_downstream(
                               registry,
                               [st EXCEPT !.store = store_delete_data(
                                                        @, doc_id, data_stage(lid))],
                               doc_id, lid, 1),
                           doc_id, layer_id, i + 1)
             ELSE invalidate_downstream(registry, st, doc_id, layer_id, i + 1)

\* LayerRunner.set_override(doc_id, layer_id, dsl_text): [store, errors,
\* raised]; errors is the list returned when nothing is raised
set_override(registry, s, doc_id, layer_id, dsl_text) ==
    LET layer == get_layer(registry, layer_id)
        data == parse_dsl(layer, dsl_text)
    IN  IF ~data.ok THEN [store |-> s, errors |-> <<"parse error">>, raised |-> FALSE]
        ELSE IF validate(layer, data.value) # <<>>
        THEN [store |-> s, errors |-> validate(layer, data.value), raised |-> FALSE]
        ELSE LET st == invalidate_downstream(
                           registry,
                           [store |-> store_set_data(s, doc_id,
                                                     override_stage(layer_id), dsl_text),
                            raised |-> FALSE],
                           doc_id, layer_id, 1)
             IN  [store |-> st.store, errors |-> <<>>, raised |-> st.raised]

\* no layer runner is in use
RunnerIdle ==
    /\ LAYERS = <<>>
    /\ store = [has_delete_data |-> FALSE, data |-> <<>>]
    /\ runner = NoValue
    /\ ops = 0

\* no text has been given to the parser
ParseIdle ==
    /\ text = << <<>> >>
    /\ parser = LogicalParser
    /\ first = NoValue
    /\ formatted = NoValue

\* no graph has been built and no propagation has been called
BPIdle ==
    /\ graph = NoValue
    /\ var_to_factor_msgs = <<>>
    /\ bp = [pc |-> "idle", iteration |-> 0, iterations |-> 0,
             damping |-> Zero, max_change |-> Zero]
    /\ calls = <<>>
    /\ queried = NoValue
    /\ trace = <<>>

\* ------------------------------------------------------------------------
\* SpecKB: build a KnowledgeBase, ground it, call ground(), build its graph
\* ------------------------------------------------------------------------

InitKB ==
    /\ kb \in {[entities |-> e, clauses |-> <<>>] : e \in EntityDicts}
    /\ grounded = NoValue
    /\ last = NoValue
    /\ kbpc = "build"
    /\ BPIdle
    /\ RunnerIdle
    /\ ParseIdle

AddFact ==
    /\ kbpc = "build"
    /\ Len(kb.clauses) < MaxClauses
    /\ \E pred \in FactInputs : kb' = add_fact(kb, pred)
    /\ UNCHANGED <<grounded, last, kbpc>>
    /\ UNCHANGED bpvars
    /\ UNCHANGED parsevars
    /\ UNCHANGED runvars

AddRule ==
    /\ kbpc = "build"
    /\ Len(kb.clauses) < MaxClauses
    /\ \E r \in RuleInputs :
          kb' = add_rule(kb, r.premises, r.conclusion, r.variables, r.weight)
    /\ UNCHANGED <<grounded, last, kbpc>>
    /\ UNCHANGED bpvars
    /\ UNCHANGED parsevars
    /\ UNCHANGED runvars

\* kb.ground_all(); the KnowledgeBase is read-only from then on
GroundAll ==
    /\ kbpc = "build"
    /\ grounded' = ground_all(kb)
    /\ kbpc' = "grounded"
    /\ last' = NoValue
    /\ UNCHANGED kb
    /\ UNCHANGED bpvars
    /\ UNCHANGED parsevars
    /\ UNCHANGED runvars

\* clause.ground(bindings) on a clause of the KB, with a full or a partial binding
Ground ==
    /\ kbpc = "grounded"
    /\ \E i \in DOMAIN kb.clauses :
         \E b \in PartialBindings(kb, kb.clauses[i]) :
            last' = [clause |-> kb.clauses[i], binding |-> b,
                     result |-> ground(kb.clauses[i], b)]
    /\ UNCHANGED <<kb, grounded, kbpc>>
    /\ UNCHANGED bpvars
    /\ UNCHANGED parsevars
    /\ UNCHANGED runvars

\* FactorGraph.from_knowledge_base(kb), which calls kb.ground_all()
FromKnowledgeBase ==
    /\ graph = NoValue
    /\ graph' = from_knowledge_base(kb)
    /\ grounded' = ground_all(kb)
    /\ kbpc' = "grounded"
    /\ UNCHANGED <<kb, last, var_to_factor_msgs, bp, calls, queried, trace>>
    /\ UNCHANGED parsevars
    /\ UNCHANGED runvars

NextKB == AddFact \/ AddRule \/ GroundAll \/ Ground \/ FromKnowledgeBase

SpecKB == InitKB /\ [][NextKB]_vars

\* ------------------------------------------------------------------------
\* SpecBP: build the FactorGraph of a KnowledgeBase and propagate beliefs
\* ------------------------------------------------------------------------

MaxIterations == 2
MaxCalls == 2

Dampings == {Zero, Half}

Fact(pred) == HornClause(<<>>, pred, <<>>, W(1, 0))
Rule1(p, q, w) == HornClause(<<P1(p, vx)>>, P1(q, vx), <<vx>>, w)
Rule2(p1, p2, q, w) == HornClause(<<P1(p1, vx), P1(p2, vx)>>, P1(q, vx), <<vx>>, w)

EntitiesA == << <<"a", Constant("a", "person")>> >>
EntitiesAB == << <<"a", Constant("a", "person")>>, <<"b", Constant("b", "person")>> >>

pa == Constant("a", "person")
pb == Constant("b", "person")

\* the knowledge bases the graphs are built from
\* the weights the syllogism is run with, in ascending order
SyllogismWeights == <<W(0, 0), W(5, -1), W(1, 0), W(2, 0)>>

\* the syllogism: man(a) is a fact, man(x) -> mortal(x) has weight w
Syllogism(w) ==
    [entities |-> EntitiesA,
     clauses |-> <<Fact(P1("man", pa)), Rule1("man", "mortal", w)>>]

BPKnowledgeBases ==
    { Syllogism(SyllogismWeights[i]) : i \in DOMAIN SyllogismWeights } \cup
    { \* the syllogism: one fact, one rule
      [entities |-> EntitiesA,
       clauses |-> <<Fact(P1("man", pa)), Rule1("man", "mortal", W(1, 0))>>],
      \* a chain of two rules
      [entities |-> EntitiesA,
       clauses |-> <<Fact(P1("man", pa)), Rule1("man", "mortal", W(2, 0)),
                     Rule1("mortal", "buried", W(1, 0))>>],
      \* a loop, no evidence
      [entities |-> EntitiesA,
       clauses |-> <<Rule1("p", "q", W(1, 0)), Rule1("q", "p", W(5, -1))>>],
      \* two premises: both are facts for a, only one for b
      [entities |-> EntitiesAB,
       clauses |-> <<Fact(P1("p1", pa)), Fact(P1("p2", pa)), Fact(P1("p1", pb)),
                     Rule2("p1", "p2", "q", W(1, 0))>>],
      \* one rule, no fact
      [entities |-> EntitiesA,
       clauses |-> <<Rule1("man", "mortal", W(1, 0))>>],
      \* a rule whose premise is its conclusion
      [entities |-> EntitiesA,
       clauses |-> <<Rule1("p", "p", W(1, 0))>>],
      \* a rule stated twice, the fact added after it; weight 0
      [entities |-> EntitiesA,
       clauses |-> <<Rule1("man", "mortal", W(1, 0)), Rule1("man", "mortal", W(0, 0)),
                     Fact(P1("man", pa))>>],
      \* a rule over a type without entities
      [entities |-> EntitiesA,
       clauses |-> <<Fact(P1("man", pa)),
                     HornClause(<<P1("grey", vz)>>, P1("mortal", vz), <<vz>>, W(1, 0))>>],
      \* a rule with the same premise twice, and another rule from it
      [entities |-> EntitiesA,
       clauses |-> <<Rule2("p", "p", "q", W(1, 0)), Rule1("p", "r", W(5, -1))>>] }

InitBP ==
    /\ kb \in BPKnowledgeBases
    /\ grounded = NoValue
    /\ last = NoValue
    /\ kbpc = "build"
    /\ BPIdle
    /\ RunnerIdle
    /\ ParseIdle

\* belief_propagation(graph, iterations, damping) up to the loop
BPCall ==
    /\ graph # NoValue
    /\ bp.pc = "idle"
    /\ Len(calls) < MaxCalls
    /\ \E n \in 0..MaxIterations, d \in Dampings :
          /\ var_to_factor_msgs' = init_var_to_factor_msgs(graph)
          /\ bp' = [pc |-> IF n = 0 THEN "idle" ELSE "running", iteration |-> 0,
                    iterations |-> n, damping |-> d, max_change |-> Zero]
          /\ calls' = Append(calls, [iterations |-> n, damping |-> d, ran |-> 0])
    /\ trace' = record(<<>>, 0, graph)
    /\ queried' = NoValue
    /\ UNCHANGED <<kbvars, graph>>
    /\ UNCHANGED parsevars
    /\ UNCHANGED runvars

\* one iteration of the loop; the call returns after the last one
BPIterate ==
    /\ bp.pc = "running"
    /\ \E r \in {bp_iteration(graph, var_to_factor_msgs, bp.damping)} :
       LET done == BelowThreshold(r.max_change) \/ bp.iteration + 1 = bp.iterations
       IN  IF Representable(r)
           THEN /\ graph' = r.graph
                /\ var_to_factor_msgs' = r.msgs
                /\ bp' = [bp EXCEPT !.iteration = @ + 1, !.max_change = r.max_change,
                                    !.pc = IF done THEN "idle" ELSE "running"]
                /\ calls' = [calls EXCEPT ![Len(calls)].ran = @ + 1]
                /\ trace' = record(trace, bp.iteration + 1, r.graph)
           ELSE \* a number of this iteration exceeds MaxMagnitude: the call
                \* is not followed any further
                /\ bp' = [bp EXCEPT !.pc = "out_of_range"]
                /\ UNCHANGED <<graph, var_to_factor_msgs, calls, trace>>
    /\ UNCHANGED queried
    /\ UNCHANGED kbvars
    /\ UNCHANGED parsevars
    /\ UNCHANGED runvars

\* the keys query() is called with: every key of the graph and one that no
\* clause mentions
QueryKeys ==
    Range(DictKeys(graph.variables)) \cup {format_predicate(P1("ghost", ca))}

\* query(graph, key), between two calls of belief_propagation
Query ==
    /\ graph # NoValue
    /\ bp.pc = "idle"
    /\ \E key \in QueryKeys :
          queried' = [key |-> key, result |-> query(graph, key)]
    /\ UNCHANGED <<graph, var_to_factor_msgs, bp, calls, trace>>
    /\ UNCHANGED kbvars
    /\ UNCHANGED parsevars
    /\ UNCHANGED runvars

NextBP == FromKnowledgeBase \/ BPCall \/ BPIterate \/ Query

SpecBP == InitBP /\ [][NextBP]_vars

\* ------------------------------------------------------------------------
\* SpecParse: parse_logical(text), then format_document of the Document and
\* parse_logical of the formatted text
\* ------------------------------------------------------------------------

MaxLines == 3

PredicateText(fn, role, arg) ==
    <<Word(fn), Sym("("), Word(role), Sym(":"), Word(arg), Sym(")")>>

\* the lines a text is made of
LineInputs ==
    { <<>>,
      <<Sym("#"), Word("note")>>,
      <<Word("entity"), Word("a"), Sym(":"), Word("person")>>,
      <<Word("entity"), Word("a"), Sym(":"), Word("animal")>>,
      \* p(x: a)
      PredicateText("p", "x", "a"),
      \* ? p(x: a)
      <<Sym("?")>> \o PredicateText("p", "x", "a"),
      \* rule [a:animal]: p(x: a) -> q(x: a) [2]
      <<Word("rule"), Sym("["), Word("a"), Sym(":"), Word("animal"), Sym("]"), Sym(":")>>
          \o PredicateText("p", "x", "a") \o <<Sym("->")>> \o PredicateText("q", "x", "a")
          \o <<Sym("["), Number("dec", 2, 0), Sym("]")>>,
      \* rule []: p(x: a) & q(x: a) -> r(x: a) [0.00001]
      <<Word("rule"), Sym("["), Sym("]"), Sym(":")>>
          \o PredicateText("p", "x", "a") \o <<Sym("&")>> \o PredicateText("q", "x", "a")
          \o <<Sym("->")>> \o PredicateText("r", "x", "a")
          \o <<Sym("["), Number("dec", 1, -5), Sym("]")>>,
      \* rule [x:person]: p(x: x) -> p(x: a) [1.0]
      <<Word("rule"), Sym("["), Word("x"), Sym(":"), Word("person"), Sym("]"), Sym(":")>>
          \o PredicateText("p", "x", "x") \o <<Sym("->")>> \o PredicateText("p", "x", "a")
          \o <<Sym("["), Number("dec", 10, -1), Sym("]")>>,
      \* rule []: p(x: a) -> q(x: a) maybe
      <<Word("rule"), Sym("["), Sym("]"), Sym(":")>>
          \o PredicateText("p", "x", "a") \o <<Sym("->")>> \o PredicateText("q", "x", "a")
          \o <<Word("maybe")>>,
      \* "  foo"
      <<Space, Word("foo")>>,
      \* entity a
      <<Word("entity"), Word("a")>>,
      \* p(x a)
      <<Word("p"), Sym("("), Word("x"), Word("a"), Sym(")")>> }

Texts == UNION { [1..n -> LineInputs] : n \in 1..MaxLines }

\* no knowledge base is being built
KBIdle ==
    /\ kb = [entities |-> <<>>, clauses |-> <<>>]
    /\ grounded = NoValue
    /\ last = NoValue
    /\ kbpc = "none"

InitParse ==
    /\ text \in Texts
    /\ parser = LogicalParser
    /\ first = NoValue
    /\ formatted = NoValue
    /\ KBIdle
    /\ BPIdle
    /\ RunnerIdle

\* parse_logical(text), or parse_logical(formatted) once there is one, up
\* to the loop over the lines
ParseLogical ==
    /\ parser.pc = "idle"
    /\ parser' = parse_start(IF first = NoValue THEN text ELSE formatted)
    /\ UNCHANGED <<text, first, formatted>>
    /\ UNCHANGED <<kbvars, bpvars>>
    /\ UNCHANGED runvars

\* one line of the text
ParseLine ==
    /\ parser.pc = "loop"
    /\ parser' = parse_step(parser)
    /\ UNCHANGED <<text, first, formatted>>
    /\ UNCHANGED <<kbvars, bpvars>>
    /\ UNCHANGED runvars

\* format_document(doc) of the Document the first parse returned
FormatDocument ==
    /\ parser.pc = "returned"
    /\ first = NoValue
    /\ first' = parser.doc
    /\ formatted' = format_document(parser.doc)
    /\ parser' = LogicalParser
    /\ UNCHANGED text
    /\ UNCHANGED <<kbvars, bpvars>>
    /\ UNCHANGED runvars

\* KnowledgeBase.from_logical_document(doc) of the Document the first parse
\* returned
FromLogicalDocument ==
    /\ parser.pc = "returned"
    /\ first = NoValue
    /\ kbpc = "none"
    /\ kb' = from_logical_document(parser.doc)
    /\ kbpc' = "build"
    /\ UNCHANGED <<grounded, last>>
    /\ UNCHANGED bpvars
    /\ UNCHANGED parsevars
    /\ UNCHANGED runvars

NextParse ==
    ParseLogical \/ ParseLine \/ FormatDocument \/ FromLogicalDocument \/ GroundAll

SpecParse == InitParse /\ [][NextParse]_vars

\* ------------------------------------------------------------------------
\* Specification of the layer runner: runs, overrides and their removal on
\* one document.
\* ------------------------------------------------------------------------

\* the calls of the runner in one behaviour
MaxOps == 3

DocId == "doc"

Tokens == Layer("tokens", <<>>)
Correct == Layer("correct", <<"tokens">>)
ClausesLayer == Layer("clauses", <<"correct">>)
Args == Layer("args", <<"correct", "clauses">>)

\* acyclic registries, in several orders of registration
Registries ==
    { register_layers(<<>>, ls) :
        ls \in { <<Tokens, Correct, ClausesLayer>>,
                 <<ClausesLayer, Correct, Tokens>>,
                 <<Args, ClausesLayer, Tokens, Correct>> } }

DslTexts == {"edited", "edited again", "invalid", "malformed"}

Outcomes == {"ok", "fail", "raise"}

InitRunner ==
    /\ LAYERS \in Registries
    /\ store \in {[has_delete_data |-> b, data |-> <<>>] : b \in BOOLEAN}
    /\ runner = NoValue
    /\ ops = 0
    /\ KBIdle
    /\ BPIdle
    /\ ParseIdle

\* runner.run(doc_id, [layer_id], force) (cli/commands/layer.py, layer_run)
Run ==
    /\ ops < MaxOps
    /\ \E layer_id \in Range(DictKeys(LAYERS)), force \in BOOLEAN :
         \E outcomes \in [Range(resolve_dependencies(LAYERS, <<layer_id>>)) -> Outcomes] :
           \E r \in {run(LAYERS, store, DocId, <<layer_id>>, force, outcomes)} :
           /\ store' = r.store
           /\ runner' = [op |-> "run", layer_id |-> layer_id, dsl_text |-> "",
                         force |-> force, before |-> store, results |-> r.results,
                         errors |-> <<>>, raised |-> FALSE]
    /\ ops' = ops + 1
    /\ UNCHANGED LAYERS
    /\ UNCHANGED <<kbvars, bpvars, parsevars>>

\* runner.set_override(doc_id, layer_id, dsl_text) (layer_set)
SetOverride ==
    /\ ops < MaxOps
    /\ \E layer_id \in Range(DictKeys(LAYERS)), dsl_text \in DslTexts :
         \E r \in {set_override(LAYERS, store, DocId, layer_id, dsl_text)} :
         /\ store' = r.store
         /\ runner' = [op |-> "set_override", layer_id |-> layer_id,
                       dsl_text |-> dsl_text, force |-> FALSE, before |-> store,
                       results |-> <<>>, errors |-> r.errors, raised |-> r.raised]
    /\ ops' = ops + 1
    /\ UNCHANGED LAYERS
    /\ UNCHANGED <<kbvars, bpvars, parsevars>>

\* store.delete_data(doc_id, f"{layer_id}_override") (layer_clear)
ClearOverride ==
    /\ ops < MaxOps
    /\ \E layer_id \in Range(DictKeys(LAYERS)) :
         /\ store' = IF store.has_delete_data
                     THEN store_delete_data(store, DocId, override_stage(layer_id))
                     ELSE store
         /\ runner' = [op |-> "clear_override", layer_id |-> layer_id, dsl_text |-> "",
                       force |-> FALSE, before |-> store, results |-> <<>>,
                       errors |-> <<>>, raised |-> ~store.has_delete_data]
    /\ ops' = ops + 1
    /\ UNCHANGED LAYERS
    /\ UNCHANGED <<kbvars, bpvars, parsevars>>

NextRunner ==
    \/ Run
    \/ SetOverride
    \/ ClearOverride

SpecRunner == InitRunner /\ [][NextRunner]_vars

\* ------------------------------------------------------------------------
\* Claims about grounding and substitution (checked under SpecKB)
\* ------------------------------------------------------------------------

\* the number ki of declared entities whose type is type_name
DomainSize(k, type_name) ==
    Cardinality({i \in DOMAIN k.entities : k.entities[i][2].type = type_name})

RECURSIVE DomainProduct(_, _)
DomainProduct(k, variables) ==
    IF variables = <<>> THEN 1
    ELSE DomainSize(k, Head(variables).type) * DomainProduct(k, Tail(variables))

ExpectedCount(k, clause) ==
    IF is_fact(clause) THEN 1 ELSE DomainProduct(k, clause.variables)

RECURSIVE ExpectedBefore(_, _)
ExpectedBefore(k, j) ==
    IF j = 0 THEN 0 ELSE ExpectedBefore(k, j - 1) + ExpectedCount(k, k.clauses[j])

FunctionNames(clause) ==
    <<[i \in DOMAIN clause.premises |-> clause.premises[i].function_name],
      clause.conclusion.function_name>>

\* C1: ground_all() returns, for each clause of the KB in turn, exactly
\* k1*...*kn instances of a rule with variables v1..vn (one when n = 0,
\* none when some ki = 0) and exactly one clause for a fact.
C1_GroundingCardinality ==
    kbpc = "grounded" =>
        /\ Len(grounded) = ExpectedBefore(kb, Len(kb.clauses))
        /\ \A j \in DOMAIN kb.clauses :
              \A n \in 1..ExpectedCount(kb, kb.clauses[j]) :
                 LET g == grounded[ExpectedBefore(kb, j - 1) + n] IN
                 /\ FunctionNames(g) = FunctionNames(kb.clauses[j])
                 /\ is_fact(kb.clauses[j]) => g = kb.clauses[j]

\* a rule with two variables grounded to 2*2 clauses next to a rule over a
\* type without entities, grounded to none
C1_Witness ==
    /\ kbpc = "grounded"
    /\ \E j \in DOMAIN kb.clauses :
          /\ Len(kb.clauses[j].variables) = 2
          /\ ~is_fact(kb.clauses[j])
          /\ ExpectedCount(kb, kb.clauses[j]) = 4
    /\ \E j \in DOMAIN kb.clauses :
          /\ kb.clauses[j].variables # <<>>
          /\ ExpectedCount(kb, kb.clauses[j]) = 0
    /\ Len(grounded) = 4

\* the binding maps every listed variable to a Constant of the variable's type
IsFullBinding(clause, b) ==
    /\ DOMAIN b = Range(clause.variables)
    /\ \A v \in DOMAIN b : b[v].tag = "Constant" /\ b[v].type = v.type

\* C2: grounding a clause that lists its variables with a binding of all of
\* them gives a grounded clause with no variables, as many premises and the
\* same weight; every clause ground_all() returns for a KB of such clauses
\* is grounded and has an empty variable list.
C2_FullBindingGrounds ==
    /\ (last # NoValue /\ ListsItsVariables(last.clause)
            /\ IsFullBinding(last.clause, last.binding)) =>
          /\ HornClause_is_grounded(last.result)
          /\ last.result.variables = <<>>
          /\ Len(last.result.premises) = Len(last.clause.premises)
          /\ last.result.weight = last.clause.weight
    /\ (kbpc = "grounded"
            /\ \A j \in DOMAIN kb.clauses : ListsItsVariables(kb.clauses[j])) =>
          \A i \in DOMAIN grounded :
             /\ HornClause_is_grounded(grounded[i])
             /\ grounded[i].variables = <<>>

\* a rule with a nested argument grounded with a binding of its two variables
C2_Witness ==
    /\ last # NoValue
    /\ ListsItsVariables(last.clause)
    /\ IsFullBinding(last.clause, last.binding)
    /\ Cardinality(DOMAIN last.binding) = 2
    /\ \E i \in DOMAIN last.clause.premises :
          \E r \in DOMAIN last.clause.premises[i].roles :
             last.clause.premises[i].roles[r][2].tag = "Predicate"
    /\ HornClause_is_grounded(last.result)
    /\ last.result.weight = W(5, -1)

ClausePredicates(clause) == clause.premises \o <<clause.conclusion>>

\* the variables a clause still has: in its predicates and in `variables`
RemainingVariables(clause) ==
    UNION {Predicate_variables(ClausePredicates(clause)[i]) :
              i \in DOMAIN ClausePredicates(clause)}
        \cup Range(clause.variables)

\* substitute keeps the function name, the role labels and their order and
\* every argument that is not a bound variable
RECURSIVE SameShape(_, _, _)
SameShape(p, q, b) ==
    /\ q.function_name = p.function_name
    /\ DOMAIN q.roles = DOMAIN p.roles
    /\ \A i \in DOMAIN p.roles :
          /\ q.roles[i][1] = p.roles[i][1]
          /\ (p.roles[i][2].tag = "Constant" => q.roles[i][2] = p.roles[i][2])
          /\ (p.roles[i][2].tag = "Predicate" =>
                 /\ q.roles[i][2].tag = "Predicate"
                 /\ SameShape(p.roles[i][2], q.roles[i][2], b))

C3_PredicatePart ==
    last # NoValue =>
        \A i \in DOMAIN ClausePredicates(last.clause) :
           LET p == ClausePredicates(last.clause)[i]
               q == ClausePredicates(last.result)[i] IN
           /\ Predicate_variables(q) = Predicate_variables(p) \ DOMAIN last.binding
           /\ SameShape(p, q, last.binding)

\* C3: after a partial binding the remaining variables are exactly those
\* not covered: of each predicate (name, roles and constants unchanged),
\* and of the clause returned by ground(b), whose remaining variables (in
\* its predicates and its `variables` field) are the original clause's
\* variables not covered by b.
C3_PartialBindingRemaining ==
    /\ C3_PredicatePart
    /\ (last # NoValue /\ ListsItsVariables(last.clause)) =>
          RemainingVariables(last.result)
              = Range(last.clause.variables) \ DOMAIN last.binding

\* ------------------------------------------------------------------------
\* Claims about belief propagation (checked under SpecBP)
\* ------------------------------------------------------------------------

\* the graph as from_knowledge_base built it, before any propagation
FreshGraph == from_knowledge_base(kb)

Nodes(g) == [i \in DOMAIN g.variables |-> g.variables[i][2]]

IterationsRun == IF calls = <<>> THEN 0 ELSE calls[Len(calls)].ran

RECURSIVE TotalRun(_)
TotalRun(cs) == IF cs = <<>> THEN 0 ELSE Head(cs).ran + TotalRun(Tail(cs))

\* C4: whatever was propagated, in one call or several, an evidence node
\* keeps the belief it had before propagation started, [0,1] or [1,0].
C4_EvidenceUnchanged ==
    graph # NoValue =>
        \A i \in DOMAIN FreshGraph.variables :
           Nodes(FreshGraph)[i].is_evidence =>
              /\ Nodes(graph)[i].key = Nodes(FreshGraph)[i].key
              /\ Nodes(graph)[i].is_evidence
              /\ Nodes(graph)[i].belief = Nodes(FreshGraph)[i].belief
              /\ Nodes(graph)[i].belief \in {<<Zero, One>>, <<One, Zero>>}

\* two calls have run; an evidence node has a neighbouring factor that
\* sends it an informative message, and a non-evidence belief has moved
C4_Witness ==
    /\ graph # NoValue
    /\ Len(calls) = 2 /\ calls[1].ran >= 1 /\ calls[2].ran >= 1
    /\ bp.pc = "idle"
    /\ \E i \in DOMAIN graph.variables :
          /\ Nodes(graph)[i].is_evidence
          /\ \E f \in DOMAIN graph.factors :
                /\ DictHas(graph.factors[f].messages, Nodes(graph)[i].key)
                /\ LET m == DictGet(graph.factors[f].messages, Nodes(graph)[i].key)
                   IN  m[1] # m[2]
    /\ \E i \in DOMAIN graph.variables :
          ~Nodes(graph)[i].is_evidence /\ Nodes(graph)[i].belief # <<Half, Half>>

\* C5: after every completed iteration the belief pair of every
\* non-evidence node sums to 1.
C5_BeliefsSumToOne ==
    (graph # NoValue /\ TotalRun(calls) >= 1) =>
        \A i \in DOMAIN graph.variables :
           ~Nodes(graph)[i].is_evidence =>
              RAdd(Nodes(graph)[i].belief[1], Nodes(graph)[i].belief[2]) = One

\* after two iterations with damping 0.5 a non-evidence belief is not uniform
C5_Witness ==
    /\ graph # NoValue
    /\ bp.iteration = 2 /\ bp.damping = Half
    /\ \E i \in DOMAIN graph.variables :
          /\ ~Nodes(graph)[i].is_evidence
          /\ Nodes(graph)[i].belief[1] # Nodes(graph)[i].belief[2]
          /\ RAdd(Nodes(graph)[i].belief[1], Nodes(graph)[i].belief[2]) = One

PairSum(msg) == RAdd(msg[1], msg[2])

VarToFactorSumsToOne ==
    \A i \in DOMAIN var_to_factor_msgs : PairSum(var_to_factor_msgs[i][2]) = One

\* C6 as stated: after every completed iteration every stored message
\* pair, factor -> variable and variable -> factor, sums to 1.
C6_MessagesSumToOne ==
    (graph # NoValue /\ bp.iteration >= 1) =>
        /\ VarToFactorSumsToOne
        /\ \A f \in DOMAIN graph.factors :
              \A i \in DOMAIN graph.factors[f].messages :
                 PairSum(graph.factors[f].messages[i][2]) = One

RECURSIVE RPow(_, _)
RPow(x, n) == IF n = 0 THEN One ELSE RMul(x, RPow(x, n - 1))

Occurrences(seq, x) == Cardinality({i \in DOMAIN seq : seq[i] = x})

\* what is left of the initial [1,1] in a message updated m times in each
\* iteration: the product of damping^(m * ran) over the calls
RECURSIVE Excess(_, _)
Excess(cs, m) ==
    IF cs = <<>> THEN One
    ELSE RMul(RPow(Head(cs).damping, m * Head(cs).ran), Excess(Tail(cs), m))

\* C6 amended: after every completed iteration every variable -> factor
\* pair sums to 1, and the stored factor -> variable pair of a key sums to
\* 1 + damping^k after k iterations (k counts an update for each occurrence
\* of the key in var_keys, over all calls): 1 only once damping was 0.
C6_MessageSums ==
    (graph # NoValue /\ bp.iteration >= 1) =>
        /\ VarToFactorSumsToOne
        /\ \A f \in DOMAIN graph.factors :
              \A i \in DOMAIN graph.factors[f].messages :
                 PairSum(graph.factors[f].messages[i][2])
                    = RAdd(One, Excess(calls, Occurrences(graph.factors[f].var_keys,
                                                          graph.factors[f].messages[i][1])))

\* two iterations with damping 0.5: a factor message sums to 1 + 1/4
C6_Witness ==
    /\ graph # NoValue
    /\ Len(calls) = 1 /\ bp.iteration = 2 /\ bp.damping = Half
    /\ \E f \in DOMAIN graph.factors :
          \E i \in DOMAIN graph.factors[f].messages :
             PairSum(graph.factors[f].messages[i][2]) = <<5, 4>>
    /\ var_to_factor_msgs # <<>>

\* two calls of N >= 1 iterations with one damping have returned, each
\* having run its N iterations, and a single call of 2N iterations on a
\* fresh copy of the graph runs its 2N iterations
TwoCallsOfN ==
    /\ graph # NoValue
    /\ bp.pc = "idle"
    /\ Len(calls) = 2
    /\ calls[1].iterations >= 1
    /\ calls[2].iterations = calls[1].iterations
    /\ calls[2].damping = calls[1].damping
    /\ calls[1].ran = calls[1].iterations
    /\ calls[2].ran = calls[2].iterations

SingleCallOf2N == belief_propagation(FreshGraph, 2 * calls[1].iterations, calls[1].damping)

\* C7 as stated: N iterations and then N more leave the beliefs and factor
\* messages that a single call of 2N iterations on a fresh copy gives.
C7_TwoRunsEqualOne ==
    TwoCallsOfN =>
        \A single \in {SingleCallOf2N} :
           (single.ok /\ single.ran = 2 * calls[1].iterations) => graph = single.graph

\* every variable -> factor message stays uniform: no node is evidence and
\* no node has two neighbouring factors
OneFactorPerVariable(g) ==
    /\ \A i \in DOMAIN g.variables : ~Nodes(g)[i].is_evidence
    /\ \A i \in DOMAIN g.var_to_factors :
          Cardinality(Range(g.var_to_factors[i][2])) <= 1

\* C7 amended: the two results are equal in a graph without evidence nodes
\* in which every variable has a single neighbouring factor; elsewhere the
\* second call restarts from [1,1] variable -> factor messages and the
\* results can differ.
C7_TwoRunsEqualOneUniform ==
    (TwoCallsOfN /\ OneFactorPerVariable(FreshGraph)) =>
        \A single \in {SingleCallOf2N} :
           (single.ok /\ single.ran = 2 * calls[1].iterations) => graph = single.graph

\* 1 + 1 iterations with damping 0.5 on a graph with a rule and no fact
C7_Witness ==
    /\ TwoCallsOfN
    /\ calls[1].damping = Half
    /\ OneFactorPerVariable(FreshGraph)
    /\ graph.factors # <<>>
    /\ graph # FreshGraph
    /\ \E single \in {SingleCallOf2N} :
          single.ok /\ single.ran = 2 * calls[1].iterations /\ graph = single.graph

\* ------------------------------------------------------------------------
\* Claims about the DSL parser and formatter (checked under SpecParse)
\* ------------------------------------------------------------------------

\* the call of parse_logical has ended
ParseEnded == parser.pc \in {"returned", "raised"}

\* the second call, parse_logical(format_document(parse_logical(text))),
\* has ended
ReparseEnded == first # NoValue /\ ParseEnded

\* C8: for every text parse_logical accepts, parsing the formatted Document
\* succeeds and gives a Document with the same entities, propositions,
\* rules (premises, conclusion, variables, weight) and queries.
C8_RoundTrip ==
    ReparseEnded =>
        /\ parser.pc = "returned"
        /\ parser.doc.entities = first.entities
        /\ parser.doc.propositions = first.propositions
        /\ parser.doc.rules = first.rules
        /\ parser.doc.queries = first.queries

\* a line the loop of parse() skips
IsSkipped(line) == line = <<>> \/ Head(line) = Sym("#")

\* the 1-based position in the text t, as given, of its first malformed
\* line from line k on, doc being the Document of the lines before; 0 when
\* there is none
RECURSIVE FirstMalformedFrom(_, _, _)
FirstMalformedFrom(t, k, doc) ==
    IF k > Len(t) THEN 0
    ELSE LET line == strip(t[k]) IN
         IF IsSkipped(line) THEN FirstMalformedFrom(t, k + 1, doc)
         ELSE LET result == parse_line(doc, line) IN
              IF result.ok THEN FirstMalformedFrom(t, k + 1, result.doc)
              ELSE k

FirstMalformed(t) == FirstMalformedFrom(t, 1, LogicalDocument)

\* C9: a text with a malformed line makes parse_logical raise a ParseError
\* and return no Document; the error's line number is the position in the
\* text as given of the first malformed line, its line text is that line
\* stripped, and the loop has not gone past that line.
C9_ErrorLineNumber ==
    (first = NoValue /\ ParseEnded) =>
        \A k \in {FirstMalformed(text)} :
            IF k = 0 THEN parser.pc = "returned"
            ELSE /\ parser.pc = "raised"
                 /\ parser.error.line_num = k
                 /\ parser.error.line = strip(text[k])
                 /\ parser.i = parser.error.line_num

\* `name(role: arg, ...)` and nothing else
IsPredicateText(toks) ==
    /\ Len(toks) >= 3
    /\ IsWord(toks[1])
    /\ toks[2] = Sym("(")
    /\ toks[Len(toks)] = Sym(")")
    /\ \/ Len(toks) = 3
       \/ \A part \in Range(split(SubSeq(toks, 3, Len(toks) - 1), Sym(","))) :
              Len(part) = 3 /\ match_name_colon_name(part)

IsPropositionLine(line) ==
    /\ IsPredicateText(line)
    /\ line[1] \notin {Word("entity"), Word("rule")}

IsQueryLine(line) ==
    /\ Len(line) > 1
    /\ Head(line) = Sym("?")
    /\ IsPredicateText(Tail(line))

\* the argument names of a proposition line or a query line
ArgNames(line) ==
    LET toks == IF Head(line) = Sym("?") THEN Tail(line) ELSE line IN
    IF Len(toks) = 3 THEN {}
    ELSE { part[3][2] :
             part \in Range(split(SubSeq(toks, 3, Len(toks) - 1), Sym(","))) }

IsEntityLine(line) ==
    /\ Len(line) >= 4
    /\ Head(line) = Word("entity")
    /\ match_name_colon_name(Tail(line))

\* the entity names the lines before line k declare
DeclaredBefore(lines, k) ==
    { strip(lines[j])[2][2] :
        j \in {j \in DOMAIN lines : j < k /\ IsEntityLine(strip(lines[j]))} }

\* line k is a proposition or query line with an argument that no earlier
\* line declares
HasUndeclaredArgument(lines, k) ==
    LET line == strip(lines[k]) IN
    /\ IsPropositionLine(line) \/ IsQueryLine(line)
    /\ ArgNames(line) \ DeclaredBefore(lines, k) # {}

\* the parser has dealt with line k
Processed(k) ==
    \/ parser.pc = "loop" /\ k < parser.i
    \/ parser.pc = "raised" /\ k <= parser.i
    \/ parser.pc = "returned"

\* C10: when the parser comes to a proposition line or a query line with an
\* argument that is not an entity declared on an earlier line (a
\* declaration on a later line does not count), parse_logical fails there
\* with a ParseError whose message contains "Unknown entity"; and when
\* parsing succeeds, every proposition and every query of the Document is
\* grounded.
C10_UnknownEntity ==
    /\ \A k \in DOMAIN parser.lines :
          (Processed(k) /\ HasUndeclaredArgument(parser.lines, k)) =>
              /\ parser.pc = "raised"
              /\ parser.error.line_num = k
              /\ parser.error.message[1] = "Unknown entity"
    /\ parser.pc = "returned" =>
          /\ \A i \in DOMAIN parser.doc.propositions :
                Predicate_is_grounded(parser.doc.propositions[i])
          /\ \A i \in DOMAIN parser.doc.queries :
                Predicate_is_grounded(parser.doc.queries[i])

\* the parse failed on a query whose argument is declared on a later line
C10_Witness ==
    /\ parser.pc = "raised"
    /\ parser.error.message[1] = "Unknown entity"
    /\ IsQueryLine(parser.error.line)
    /\ \E j \in DOMAIN parser.lines :
          /\ j > parser.i
          /\ IsEntityLine(strip(parser.lines[j]))
          /\ strip(parser.lines[j])[2][2] \in ArgNames(parser.error.line)

\* the elements of a set of numbers in increasing order
RECURSIVE Sorted(_)
Sorted(S) ==
    IF S = {} THEN <<>>
    ELSE LET least == CHOOSE i \in S : \A j \in S : i <= j
         IN  <<least>> \o Sorted(S \ {least})

IsRuleLine(line) ==
    Len(line) > 1 /\ Head(line) = Word("rule") /\ line[2] = Sym("[")

\* where the variable declarations of a rule line end
DeclarationsEnd(line) == IndexOf(line, Sym("]"), 3)

\* the positions of `name : type` declarations between the brackets
DeclarationPositions(line) ==
    { i \in 3..(DeclarationsEnd(line) - 3) :
        IsWord(line[i]) /\ line[i + 1] = Sym(":") /\ IsWord(line[i + 2]) }

DeclaredVariableNames(line) == { line[i][2] : i \in DeclarationPositions(line) }

\* the variable a name declared on the rule line stands for
DeclaredVariable(line, name) ==
    LET i == CHOOSE i \in DeclarationPositions(line) :
                /\ line[i][2] = name
                /\ \A j \in DeclarationPositions(line) : line[j][2] = name => j <= i
    IN  Variable(line[i + 2][2], name)

\* the argument names of the premises and the conclusion of a rule line,
\* in the order they are written
RuleArgNames(line) ==
    LET positions == { i \in (DeclarationsEnd(line) + 4)..Len(line) :
                          /\ IsWord(line[i])
                          /\ line[i - 1] = Sym(":")
                          /\ IsWord(line[i - 2])
                          /\ line[i - 3] \in {Sym("("), Sym(",")} }
        sorted == Sorted(positions)
    IN  [n \in DOMAIN sorted |-> line[sorted[n]][2]]

\* the entity the last declaration of name before line k declares
DeclaredEntity(lines, k, name) ==
    LET declaring == { j \in DOMAIN lines :
                          /\ j < k
                          /\ IsEntityLine(strip(lines[j]))
                          /\ strip(lines[j])[2][2] = name }
        j == CHOOSE j \in declaring : \A l \in declaring : l <= j
    IN  Constant(name, strip(lines[j])[4][2])

\* what the name of an argument on rule line k has to resolve to
ExpectedArgument(lines, k, name) ==
    IF name \in DeclaredVariableNames(strip(lines[k]))
    THEN DeclaredVariable(strip(lines[k]), name)
    ELSE DeclaredEntity(lines, k, name)

Resolvable(lines, k) ==
    \A name \in Range(RuleArgNames(strip(lines[k]))) :
        name \in DeclaredVariableNames(strip(lines[k])) \cup DeclaredBefore(lines, k)

\* the arguments of a parsed rule, premises first
RuleArguments(rule) ==
    LET predicates == rule.premises \o <<rule.conclusion>> IN
    Flatten([p \in DOMAIN predicates |->
                [r \in DOMAIN predicates[p].roles |-> predicates[p].roles[r][2]]])

\* the rule of the document that rule line k made
RuleOfLine(lines, k) ==
    parser.doc.rules[Cardinality({j \in 1..k : IsRuleLine(strip(lines[j]))})]

\* C11: on a rule line the parser comes to, an argument name stands for the
\* variable of that name declared on this line if there is one, also when
\* an entity has the name, and else for the entity of that name declared on
\* an earlier line; when a name is neither, the parse fails on that line.
\* Variables of another rule line never count.
C11_NameResolution ==
    \A k \in DOMAIN parser.lines :
        (Processed(k) /\ IsRuleLine(strip(parser.lines[k]))) =>
            IF Resolvable(parser.lines, k)
            THEN /\ ~(parser.pc = "raised" /\ parser.i = k)
                 /\ LET names == RuleArgNames(strip(parser.lines[k]))
                        arguments == RuleArguments(RuleOfLine(parser.lines, k))
                    IN  /\ Len(arguments) = Len(names)
                        /\ \A n \in DOMAIN names :
                              arguments[n] = ExpectedArgument(parser.lines, k, names[n])
            ELSE parser.pc = "raised" /\ parser.i = k

\* after the declaration of an entity, a rule with a variable of the same
\* name was parsed, and then a rule without variables that uses the name
C11_Witness ==
    /\ parser.pc = "returned"
    /\ Len(parser.doc.rules) = 2
    /\ DictHas(parser.doc.entities, "a")
    /\ RuleArguments(parser.doc.rules[1])[1] = Variable("animal", "a")
    /\ RuleArguments(parser.doc.rules[2])[1] = DictGet(parser.doc.entities, "a")

\* ------------------------------------------------------------------------
\* Claims about the construction of the factor graph (checked under SpecKB)
\* ------------------------------------------------------------------------

\* a rule with a variable whose type has no declared entity
Unsatisfiable(k, clause) ==
    /\ ~is_fact(clause)
    /\ \E i \in DOMAIN clause.variables : DomainSize(k, clause.variables[i].type) = 0

\* the knowledge base without its j-th clause
Without(k, j) ==
    [k EXCEPT !.clauses = SubSeq(@, 1, j - 1) \o SubSeq(@, j + 1, Len(@))]

\* C12: a rule with a variable whose type has no declared entity
\* contributes no grounded clause, no node and no factor: grounding and the
\* graph are those of the knowledge base without the rule.
C12_UnsatisfiableRule ==
    graph # NoValue =>
        \A j \in DOMAIN kb.clauses :
            Unsatisfiable(kb, kb.clauses[j]) =>
                /\ grounded = ground_all(Without(kb, j))
                /\ graph = from_knowledge_base(Without(kb, j))

\* the graph of a rule with instances and a rule over a type without entities
C12_Witness ==
    /\ graph # NoValue
    /\ graph.factors # <<>>
    /\ \E j \in DOMAIN kb.clauses : Unsatisfiable(kb, kb.clauses[j])


\* the rule instances among grounded clauses, in order
RuleInstances(clauses) == SelectSeq(clauses, LAMBDA c : ~is_fact(c))

\* the canonical keys of a clause's premises followed by its conclusion's
ClauseKeys(clause) ==
    [i \in DOMAIN clause.premises |-> format_predicate(clause.premises[i])]
        \o <<format_predicate(clause.conclusion)>>

\* C13: the n-th grounded rule instance of ground_all() has a FactorNode
\* whose var_keys are the premise keys in order followed by the conclusion
\* key, whose weight is the clause's, whose type is "implication" iff there
\* is one premise, and whose messages are [1.0, 1.0] for each connected key.
C13_FactorPerInstance ==
    graph # NoValue =>
        LET instances == RuleInstances(grounded) IN
        \A n \in DOMAIN instances :
            /\ n \in DOMAIN graph.factors
            /\ LET factor == graph.factors[n]
                   clause == instances[n]
               IN  /\ factor.var_keys = ClauseKeys(clause)
                   /\ factor.weight = clause.weight
                   /\ factor.factor_type =
                         IF Len(clause.premises) = 1 THEN "implication"
                         ELSE "conjunction_implication"
                   /\ Range(DictKeys(factor.messages)) = Range(factor.var_keys)
                   /\ \A key \in Range(factor.var_keys) :
                         DictGet(factor.messages, key) = <<One, One>>

\* a graph with an implication factor and a conjunction factor of weight # 1
C13_Witness ==
    /\ graph # NoValue
    /\ \E i, j \in DOMAIN graph.factors :
          /\ graph.factors[i].factor_type = "implication"
          /\ graph.factors[j].factor_type = "conjunction_implication"
          /\ (graph.factors[i].weight # W(1, 0) \/ graph.factors[j].weight # W(1, 0))


\* FactorGraph.stats()
stats(g) ==
    [variables |-> Len(g.variables),
     factors   |-> Len(g.factors),
     evidence  |-> Cardinality({i \in DOMAIN g.variables : g.variables[i][2].is_evidence})]

\* what makes two grounded rule instances the same instance
InstanceOf(clause) == <<ClauseKeys(clause), clause.weight>>

DistinctInstances(clauses) ==
    {InstanceOf(clause) : clause \in Range(RuleInstances(clauses))}

\* C14: the graph has exactly one factor per distinct grounded rule
\* instance; stats()["factors"] is the number of distinct instances.
C14_OneFactorPerDistinctInstance ==
    graph # NoValue =>
        /\ stats(graph).factors = Cardinality(DistinctInstances(grounded))
        /\ \A i, j \in DOMAIN graph.factors :
              (/\ graph.factors[i].var_keys = graph.factors[j].var_keys
               /\ graph.factors[i].weight = graph.factors[j].weight) => i = j


\* the canonical keys a list of grounded clauses mentions
MentionedKeys(clauses) ==
    UNION {Range(ClauseKeys(clause)) : clause \in Range(clauses)}

\* the canonical keys of the conclusions of the fact clauses of a KB
FactKeys(k) ==
    {format_predicate(clause.conclusion) :
        clause \in {c \in Range(k.clauses) : is_fact(c)}}

\* C15: in the graph built from a knowledge base there is exactly one node
\* per distinct key, a node is evidence iff its key is the key of a fact's
\* conclusion, evidence nodes have belief [0, 1] and the others [0.5, 0.5],
\* whatever the order of facts and rules in kb.clauses.
C15_EvidenceNodes ==
    graph # NoValue =>
        /\ Range(DictKeys(graph.variables)) = MentionedKeys(grounded)
        /\ Cardinality(Range(DictKeys(graph.variables))) = Len(graph.variables)
        /\ \A i \in DOMAIN graph.variables :
              LET key  == graph.variables[i][1]
                  node == graph.variables[i][2]
              IN  /\ node.key = key
                  /\ node.is_evidence <=> key \in FactKeys(kb)
                  /\ node.belief = IF node.is_evidence THEN <<Zero, One>>
                                   ELSE <<Half, Half>>

\* a fact added after a rule that mentions the same proposition: the node
\* the rule created is the fact's evidence node
C15_Witness ==
    /\ graph # NoValue
    /\ Len(kb.clauses) = 2
    /\ ~is_fact(kb.clauses[1])
    /\ is_fact(kb.clauses[2])
    /\ graph.factors # <<>>
    /\ \E i \in DOMAIN graph.variables :
          /\ graph.variables[i][2].is_evidence
          /\ graph.variables[i][1] \in Range(graph.factors[1].var_keys)
    /\ \E i \in DOMAIN graph.variables : ~graph.variables[i][2].is_evidence


\* ------------------------------------------------------------------------
\* Claims about canonical keys and predicates
\* ------------------------------------------------------------------------

\* the predicates of the facts, the grounded rule instances and the queries
\* of the parsed document
DocumentPredicates ==
    UNION {Range(clause.premises) \cup {clause.conclusion} : clause \in Range(grounded)}
        \cup Range(parser.doc.queries)

\* C16: two grounded predicates among the facts, grounded rule instances and
\* queries of one parsed document have the same canonical key only if they
\* are equal, also when an entity name is declared again with another type.
C16_KeyCollisionFree ==
    (kbpc = "grounded" /\ parser.pc = "returned" /\ first = NoValue) =>
        \A p, q \in DocumentPredicates :
            format_predicate(p) = format_predicate(q) => p = q


\* the predicates of the clauses of the knowledge base and of its grounding
KBPredicates ==
    UNION {Range(clause.premises) \cup {clause.conclusion} :
              clause \in Range(kb.clauses)
                  \cup (IF kbpc = "grounded" THEN Range(grounded) ELSE {})}

\* the same function name and the same set of (role, term) pairs
SamePairs(p, q) ==
    /\ p.function_name = q.function_name
    /\ Range(p.roles) = Range(q.roles)

\* the same function name and the same (role, term) pairs in the same order
SamePairsInOrder(p, q) ==
    /\ p.function_name = q.function_name
    /\ Len(p.roles) = Len(q.roles)
    /\ \A i \in DOMAIN p.roles : p.roles[i] = q.roles[i]

C18_Query ==
    [][ (queried' # NoValue /\ queried' # queried) =>
            /\ graph' = graph
            /\ LET key == queried'.key
                   known == {i \in DOMAIN graph.variables : graph.variables[i][1] = key}
               IN  IF known = {} THEN queried'.result = Zero
                   ELSE \A i \in known :
                           queried'.result = graph.variables[i][2].belief[2] ]_vars

\* after a propagation, the query of a node that is not evidence and whose
\* belief has moved away from the prior
C18_Witness ==
    /\ queried # NoValue
    /\ calls # <<>>
    /\ DictHas(graph.variables, queried.key)
    /\ ~DictGet(graph.variables, queried.key).is_evidence
    /\ queried.result # Half
    /\ queried.result = DictGet(graph.variables, queried.key).belief[2]


\* ------------------------------------------------------------------------
\* SpecBPFair: SpecBP where a started iteration of the loop completes
\* ------------------------------------------------------------------------

\* BPIterate is enabled exactly while bp.pc = "running" and always changes
\* bp, so this is WF_vars(BPIterate) with ENABLED written out.
BPIterateFair ==
    \/ []<>(bp.pc # "running")
    \/ []<><<BPIterate>>_vars

SpecBPFair == InitBP /\ [][NextBP]_vars /\ BPIterateFair

\* max_change < 1e-6, on the recorded maximum change num/den of an
\* iteration: den > 1000000 * num, computed without the product
ChangeBelow1e6(x) == x[1] = 0 \/ (x[2] - 1) \div x[1] >= 1000000

\* the safety part of C19
C19_LoopBounds ==
    /\ bp.iteration <= bp.iterations
    /\ \A c \in DOMAIN calls : calls[c].ran <= calls[c].iterations
    /\ calls # <<>> =>
          LET call == calls[Len(calls)] IN
          /\ call.ran = bp.iteration
          /\ call.iterations = bp.iterations
          \* the loop goes on after an iteration only above the threshold
          /\ (bp.pc = "running" /\ bp.iteration >= 1) =>
                /\ bp.iteration < bp.iterations
                /\ ~ChangeBelow1e6(bp.max_change)
          \* the call has returned before its n-th iteration exactly when
          \* the last iteration's maximum change was below the threshold
          /\ (bp.pc = "idle" /\ bp.iteration < bp.iterations) =>
                /\ bp.iteration >= 1
                /\ ChangeBelow1e6(bp.max_change)

\* C19: belief_propagation(graph, n, damping) returns after at most n
\* iterations; it stops after iteration i < n exactly when that iteration's
\* maximum message change is below 1e-6 and runs all n iterations otherwise.
\* Every call that has started returns, as far as the numbers of its
\* iterations stay within MaxMagnitude.
C19_Termination ==
    /\ []C19_LoopBounds
    /\ (bp.pc = "running") ~> (bp.pc \in {"idle", "out_of_range"})

\* a call that returned before its last iteration
C19_Witness ==
    /\ calls # <<>>
    /\ bp.pc = "idle"
    /\ 1 <= bp.iteration
    /\ bp.iteration < bp.iterations
    /\ graph.factors # <<>>


\* P(true) above the prior 0.5, for a probability num/den
AboveHalf(x) == 2 * x[1] > x[2]

\* how many of the keys are evidence nodes of the graph
EvidenceCount(keys) ==
    Cardinality({i \in DOMAIN keys : DictGet(graph.variables, keys[i]).is_evidence})

\* C20: after belief propagation, the conclusion q(e) of a two-premise
\* rule p1(x) & p2(x) -> q(x) of positive weight is above its prior 0.5
\* only if both p1(e) and p2(e) are facts, and stays at 0.5 when only one
\* of them is.
C20_ConjunctionNeedsBothPremises ==
    (graph # NoValue /\ bp.pc = "idle" /\ bp.iteration >= 1) =>
        \A f \in DOMAIN graph.factors :
            LET factor == graph.factors[f] IN
            (/\ factor.factor_type = "conjunction_implication"
             /\ Len(factor.var_keys) = 3
             /\ factor.weight[1] > 0
             /\ ~DictGet(graph.variables, factor.var_keys[3]).is_evidence) =>
                LET q == DictGet(graph.variables, factor.var_keys[3])
                    facts == EvidenceCount(SubSeq(factor.var_keys, 1, 2))
                IN  /\ AboveHalf(q.belief[2]) => facts = 2
                    /\ facts = 1 => q.belief = <<Half, Half>>


\* ------------------------------------------------------------------------
\* C21: in the syllogism (man(a) a fact, man(x) -> mortal(x) of weight
\* w >= 0) the belief of mortal(a) is at least 0.5 after every iteration,
\* and once the iteration has reached its fixed point the belief does not
\* decrease when w grows.
\* ------------------------------------------------------------------------

MortalKey == format_predicate(P1("mortal", ca))

\* x <= y
RLeq(x, y) == x[1] * y[2] <= y[1] * x[2]

IsSyllogism == \E i \in DOMAIN SyllogismWeights : kb = Syllogism(SyllogismWeights[i])

\* one more iteration changes no belief and no message
FixedPoint(g, msgs, damping) ==
    \A r \in {bp_iteration(g, msgs, damping)} : r.graph = g /\ r.msgs = msgs

\* n iterations from the state a call starts in
RECURSIVE Iterate(_, _, _, _)
Iterate(g, msgs, damping, n) ==
    IF n = 0 THEN [graph |-> g, msgs |-> msgs]
    ELSE LET r == bp_iteration(g, msgs, damping)
         IN  Iterate(r.graph, r.msgs, damping, n - 1)

\* the syllogism of weight w after n iterations of one call
SyllogismAfter(w, damping, n) ==
    LET g == from_knowledge_base(Syllogism(w))
    IN  Iterate(g, init_var_to_factor_msgs(g), damping, n)

C21_SyllogismBelief ==
    (IsSyllogism /\ graph # NoValue /\ bp.pc # "out_of_range") =>
        /\ RLeq(Half, query(graph, MortalKey))
        /\ (bp.iteration >= 1 /\ Len(calls) = 1
              /\ FixedPoint(graph, var_to_factor_msgs, bp.damping)) =>
              \A i, j \in DOMAIN SyllogismWeights :
                 (kb = Syllogism(SyllogismWeights[i]) /\ i < j) =>
                    \A o \in {SyllogismAfter(SyllogismWeights[j], bp.damping,
                                             bp.iteration)} :
                       FixedPoint(o.graph, o.msgs, bp.damping) =>
                          RLeq(query(graph, MortalKey), query(o.graph, MortalKey))

C21_Witness ==
    /\ kb = Syllogism(W(5, -1))
    /\ graph # NoValue
    /\ bp.iteration >= 1
    /\ Len(calls) = 1
    /\ FixedPoint(graph, var_to_factor_msgs, bp.damping)
    /\ query(graph, MortalKey) = <<5, 8>>
    /\ \A o \in {SyllogismAfter(W(2, 0), bp.damping, bp.iteration)} :
          /\ FixedPoint(o.graph, o.msgs, bp.damping)
          /\ query(o.graph, MortalKey) = <<7, 8>>

\* ------------------------------------------------------------------------
\* Claims about the weight of a rule (checked under SpecParse)
\* ------------------------------------------------------------------------

\* where the conclusion of a rule line ends: the first ")" after the arrow,
\* or 0 when the line has no arrow or no conclusion
ConclusionEnd(line) ==
    LET arrow == IndexOf(line, Sym("->"), 1) IN
    IF arrow = 0 THEN 0 ELSE IndexOf(line, Sym(")"), arrow)

\* what a rule line has after its conclusion
TrailingText(line) == strip(SubSeq(line, ConclusionEnd(line) + 1, Len(line)))

\* `[<number>]` with a number in decimal form
IsWeightSuffix(toks) ==
    /\ Len(toks) = 3
    /\ toks[1] = Sym("[")
    /\ toks[2][1] = "number"
    /\ toks[2][2] = "dec"
    /\ toks[3] = Sym("]")

\* the parse has gone past line k
Accepted(k) ==
    \/ parser.pc = "loop" /\ k < parser.i
    \/ parser.pc = "returned"

\* C22: a rule line that ends with `[<number>]` gives a rule of that
\* weight, a rule line with nothing after its conclusion gives weight 1.0,
\* and a rule line with anything else after its conclusion is not accepted;
\* format_rule writes a bracket exactly for a weight other than 1.0.
C22_WeightSuffix ==
    /\ \A k \in DOMAIN parser.lines :
          \A line \in {strip(parser.lines[k])} :
             (Accepted(k) /\ IsRuleLine(line) /\ ConclusionEnd(line) # 0) =>
                \A trailing \in {TrailingText(line)} :
                   /\ trailing # <<>> => IsWeightSuffix(trailing)
                   /\ RuleOfLine(parser.lines, k).weight =
                         IF trailing = <<>> THEN <<1, 0>>
                         ELSE float(trailing[2][3], trailing[2][4])
    /\ \A i \in DOMAIN parser.doc.rules :
          \A out \in {format_rule(parser.doc.rules[i])} :
             (out[Len(out)] = Sym("]")) <=> (parser.doc.rules[i].weight # <<1, 0>>)

\* ------------------------------------------------------------------------
\* Claims about one iteration of belief propagation (checked under SpecBP)
\* ------------------------------------------------------------------------

\* the orders in which the numbers 1..n can be visited
Orders(n) == { o \in [1..n -> 1..n] : \A i, j \in 1..n : o[i] = o[j] => i = j }

\* for every factor an order of the positions of its var_keys
TargetOrders(factors) ==
    LET all == UNION { Orders(Len(factors[f].var_keys)) : f \in DOMAIN factors }
    IN  { to \in [DOMAIN factors -> all] :
             \A f \in DOMAIN factors : to[f] \in Orders(Len(factors[f].var_keys)) }

\* the visits <<f, t>> of the factor -> variable sweep when the factors are
\* taken in the order fo and the targets of factor f in the order to[f]
Visits(fo, to) ==
    Flatten([i \in DOMAIN fo |-> [j \in DOMAIN to[fo[i]] |-> <<fo[i], to[fo[i]][j]>>]])

RECURSIVE factor_sweep_visits(_, _, _, _)
factor_sweep_visits(st, msgs, damping, visits) ==
    IF visits = <<>> THEN st
    ELSE factor_sweep_visits(factor_visit(st, msgs, damping, Head(visits)[1], Head(visits)[2]),
                             msgs, damping, Tail(visits))

\* the orders in which the variable -> factor sweep is tried: every order of
\* up to MaxPermuted keys, and for more keys the reversed order and the
\* orders with two neighbours exchanged
MaxPermuted == 4

KeyOrders(n) ==
    IF n <= MaxPermuted THEN Orders(n)
    ELSE { [i \in 1..n |-> n + 1 - i] } \cup
         { [i \in 1..n |-> IF i = k THEN k + 1 ELSE IF i = k + 1 THEN k ELSE i] :
              k \in 1..(n - 1) }

\* the iteration with the two sweeps in the given orders
bp_iteration_in(g, msgs, damping, visits, ko) ==
    LET swept == factor_sweep_visits([factors |-> g.factors, max_change |-> Zero],
                                     msgs, damping, visits)
        g1 == [g EXCEPT !.factors = swept.factors]
        keys == message_keys(g1)
        msgs1 == variable_sweep_for(g1, msgs, [i \in DOMAIN keys |-> keys[ko[i]]])
        g2 == [g1 EXCEPT !.variables =
                   [i \in DOMAIN @ |-> <<@[i][1], update_belief(g1, @[i][2])>>]]
    IN  [graph |-> g2, msgs |-> msgs1, max_change |-> swept.max_change]

\* C23: the iteration a running call is about to make leaves the same
\* beliefs, messages and max_change for every order in which the factors
\* and, in each factor, the targets are visited, and for the orders of the
\* variable -> factor sweep: no message of the sweep is computed from one
\* written earlier in the same sweep.
C23_OrderIndependent ==
    bp.pc = "running" =>
        \A r \in {bp_iteration(graph, var_to_factor_msgs, bp.damping)} :
           /\ \A fo \in Orders(Len(graph.factors)), to \in TargetOrders(graph.factors) :
                 bp_iteration_in(graph, var_to_factor_msgs, bp.damping, Visits(fo, to),
                                 [i \in DOMAIN message_keys(graph) |-> i]) = r
           /\ \A ko \in KeyOrders(Len(message_keys(graph))) :
                 bp_iteration_in(graph, var_to_factor_msgs, bp.damping,
                                 Visits([i \in DOMAIN graph.factors |-> i],
                                        [f \in DOMAIN graph.factors |->
                                            [t \in DOMAIN graph.factors[f].var_keys |-> t]]),
                                 ko) = r

\* the second iteration of a call on the chain of two rules is about to be
\* made: the factors have messages of the first, and 8 orders are compared
C23_Witness ==
    /\ bp.pc = "running"
    /\ bp.iteration = 1
    /\ Len(graph.factors) = 2
    /\ Cardinality(TargetOrders(graph.factors)) = 4
    /\ \E f \in DOMAIN graph.factors :
          \E k \in DOMAIN graph.factors[f].messages :
             graph.factors[f].messages[k][2] # <<One, One>>

\* the positions in graph.factors of the factors that key is a variable of
Neighbours(g, key) ==
    { f \in DOMAIN g.factors : key \in Range(g.factors[f].var_keys) }

\* the product of the messages to key of the factors at the positions fs
RECURSIVE MessageProduct(_, _, _)
MessageProduct(g, key, fs) ==
    IF fs = <<>> THEN <<One, One>>
    ELSE LET rest == MessageProduct(g, key, Tail(fs))
             incoming == DictGet(g.factors[Head(fs)].messages, key)
         IN  <<RMul(rest[1], incoming[1]), RMul(rest[2], incoming[2])>>

\* [p / (p + q), q / (p + q)]
Normalized(pair) ==
    LET total == RAdd(pair[1], pair[2])
    IN  <<RDiv(pair[1], total), RDiv(pair[2], total)>>

\* C24: after an iteration the belief of every variable that is not
\* evidence is the normalized product of the messages to it of its
\* neighbouring factors, each factor counted once.
C24_BeliefIsProduct ==
    (graph # NoValue /\ bp.iteration >= 1 /\ bp.pc # "out_of_range") =>
        \A i \in DOMAIN graph.variables :
           LET key == graph.variables[i][1]
               var == graph.variables[i][2]
           IN  ~var.is_evidence =>
                  var.belief = Normalized(MessageProduct(graph, key,
                                              Sorted(Neighbours(graph, key))))

\* C25: at the end of an iteration the message of a variable to a
\* neighbouring factor f is the variable's clamped belief when it is
\* evidence, and otherwise the normalized product of the current messages
\* to it of its neighbouring factors other than f, which is [0.5, 0.5] when
\* f is its only neighbour.
C25_VariableMessage ==
    (graph # NoValue /\ bp.iteration >= 1 /\ bp.pc # "out_of_range") =>
        \A i \in DOMAIN graph.variables :
           LET key == graph.variables[i][1]
               var == graph.variables[i][2]
           IN  \A f \in Neighbours(graph, key) :
                  \A sent \in {DictGet(var_to_factor_msgs, <<key, graph.factors[f].factor_id>>)} :
                     /\ var.is_evidence => sent = var.belief /\ sent = <<Zero, One>>
                     /\ ~var.is_evidence =>
                           sent = Normalized(MessageProduct(graph, key,
                                                Sorted(Neighbours(graph, key) \ {f})))
                     /\ (~var.is_evidence /\ Neighbours(graph, key) = {f}) =>
                           sent = <<Half, Half>>

\* what belief_propagation is to leave alone: the keys, the evidence flags
\* and the evidence beliefs of the variables, the identity of the factors,
\* the keys of their messages, and the adjacency lists
Structure(g) ==
    [keys |-> DictKeys(g.variables),
     is_evidence |-> [i \in DOMAIN g.variables |-> g.variables[i][2].is_evidence],
     evidence |-> [i \in DOMAIN g.variables |->
                     IF g.variables[i][2].is_evidence THEN g.variables[i][2].belief
                     ELSE <<>>],
     factors |-> [f \in DOMAIN g.factors |->
                    [factor_id |-> g.factors[f].factor_id,
                     var_keys |-> g.factors[f].var_keys,
                     weight |-> g.factors[f].weight,
                     factor_type |-> g.factors[f].factor_type,
                     message_keys |-> DictKeys(g.factors[f].messages)]],
     var_to_factors |-> g.var_to_factors]

\* C26: belief_propagation changes nothing of the structure of the graph:
\* in every state of any number of calls, the keys of the variables, their
\* is_evidence flags, the evidence beliefs, every factor's factor_id,
\* var_keys, weight and factor_type, the keys of its messages and
\* var_to_factors are those of the graph as it was built.
C26_StructureUnchanged ==
    graph # NoValue => Structure(graph) = Structure(from_knowledge_base(kb))

\* a second call has run on a graph with evidence, and beliefs and messages
\* are no longer those of the graph as it was built
C26_Witness ==
    /\ graph # NoValue
    /\ Len(calls) = 2
    /\ bp.pc = "idle"
    /\ bp.iteration >= 1
    /\ \E i \in DOMAIN graph.variables : graph.variables[i][2].is_evidence
    /\ \A g \in {from_knowledge_base(kb)} :
          /\ \E i \in DOMAIN graph.variables :
                graph.variables[i][2].belief # g.variables[i][2].belief
          /\ \E f \in DOMAIN graph.factors :
                graph.factors[f].messages # g.factors[f].messages

\* the (key, P(true)) pairs of the variables of the graph
BeliefsNow ==
    { <<graph.variables[i][1], graph.variables[i][2].belief[2]>> :
         i \in DOMAIN graph.variables }

\* the ((factor_id, key), P(true)) pairs of the factor -> variable messages
MessagesNow ==
    UNION { { << <<graph.factors[f].factor_id, graph.factors[f].messages[j][1]>>,
                 graph.factors[f].messages[j][2][2] >> :
                 j \in DOMAIN graph.factors[f].messages } :
            f \in DOMAIN graph.factors }

\* the trace of the current call, as it stands
C27_TraceShape ==
    /\ calls = <<>> => trace = <<>>
    /\ calls # <<>> =>
          /\ Len(trace) = calls[Len(calls)].ran + 1
          /\ Len(trace) <= calls[Len(calls)].iterations + 1
          /\ \A i \in DOMAIN trace : trace[i].iteration = i - 1
          /\ \A last_entry \in {trace[Len(trace)]} :
                /\ Range(last_entry.beliefs) = BeliefsNow
                /\ Len(last_entry.beliefs) = Len(graph.variables)
                /\ Range(last_entry.factor_messages) = MessagesNow
                /\ Len(last_entry.factor_messages) = Cardinality(MessagesNow)

\* an iteration of the current call leaves the entries recorded so far
C27_EntriesKept ==
    Len(calls') = Len(calls) =>
        /\ Len(trace') >= Len(trace)
        /\ \A i \in DOMAIN trace : trace'[i] = trace[i]

\* C27: the trace of a call has the entry 0 for the state the call starts
\* in and one entry per iteration run, numbered from 1 (its length is the
\* iterations run + 1, at most iterations + 1); the entry made last holds
\* P(true) of every variable and of every factor -> variable message as
\* they are now, and no step of the call changes an entry made before.
C27_Trace == []C27_TraceShape /\ [][C27_EntriesKept]_vars

\* two iterations have run and each has changed a belief and a message
C27_Witness ==
    /\ Len(trace) = 3
    /\ trace[1].beliefs # trace[2].beliefs
    /\ trace[2].beliefs # trace[3].beliefs
    /\ trace[2].factor_messages # trace[3].factor_messages
    /\ Range(trace[3].beliefs) = BeliefsNow

\* the assignments of 0 and 1 to the variables of a factor
Assignments(factor) == [Range(factor.var_keys) -> {0, 1}]

\* every premise is 1 and the conclusion is 0
Violated(factor, assignment) ==
    /\ \A i \in 1..(Len(factor.var_keys) - 1) : assignment[factor.var_keys[i]] = 1
    /\ assignment[factor.var_keys[Len(factor.var_keys)]] = 0

\* C28: for every factor of a graph and every assignment to its variables,
\* compute_factor_potential is exp(-weight) when every premise is 1 and the
\* conclusion 0, and 1.0 otherwise; for a factor of type `implication` the
\* branch of `conjunction_implication` gives the same.
C28_FactorPotential ==
    graph # NoValue =>
        \A f \in DOMAIN graph.factors :
           \A assignment \in Assignments(graph.factors[f]) :
              /\ compute_factor_potential(graph.factors[f], assignment) =
                    IF Violated(graph.factors[f], assignment)
                    THEN exp_neg(graph.factors[f].weight) ELSE One
              /\ graph.factors[f].factor_type = "implication" =>
                    compute_factor_potential(
                        [graph.factors[f] EXCEPT !.factor_type = "conjunction_implication"],
                        assignment)
                    = compute_factor_potential(graph.factors[f], assignment)

\* a factor with two different premises: one assignment is penalized, and
\* one with a single true premise and a false conclusion is not
C28_Witness ==
    /\ graph # NoValue
    /\ \E f \in DOMAIN graph.factors :
          /\ graph.factors[f].factor_type = "conjunction_implication"
          /\ Cardinality(Range(graph.factors[f].var_keys)) = 3
          /\ \E a, b \in Assignments(graph.factors[f]) :
                /\ Violated(graph.factors[f], a)
                /\ compute_factor_potential(graph.factors[f], a) = <<3, 8>>
                /\ b[graph.factors[f].var_keys[1]] = 1
                /\ b[graph.factors[f].var_keys[2]] = 0
                /\ b[graph.factors[f].var_keys[3]] = 0
                /\ compute_factor_potential(graph.factors[f], b) = One

\* C29: in every graph from_knowledge_base builds, the factor at index i
\* has factor_id i, every key of a factor's var_keys is a key of the
\* variables and of the factor's messages, and the index of a factor occurs
\* in var_to_factors[k] once when k is one of the factor's var_keys and not
\* at all otherwise.
C29_AdjacencyConsistent ==
    graph # NoValue =>
        /\ \A f \in DOMAIN graph.factors :
              /\ graph.factors[f].factor_id = f - 1
              /\ \A k \in Range(graph.factors[f].var_keys) :
                    /\ DictHas(graph.variables, k)
                    /\ DictHas(graph.factors[f].messages, k)
        /\ \A i \in DOMAIN graph.var_to_factors :
              \A f \in DOMAIN graph.factors :
                 Occurrences(graph.var_to_factors[i][2], f - 1) =
                    IF graph.var_to_factors[i][1] \in Range(graph.factors[f].var_keys)
                    THEN 1 ELSE 0


\* ------------------------------------------------------------------------
\* C30
\* ------------------------------------------------------------------------

\* the layers that depend, directly or through other layers, on one of S
RECURSIVE Downstream(_, _)
Downstream(registry, S) ==
    LET next == S \cup { registry[i][1] : i \in { j \in DOMAIN registry :
                             Range(registry[j][2].depends_on) \cap S # {} } }
    IN  IF next = S THEN S ELSE Downstream(registry, next)

Dependents(registry, layer_id) == Downstream(registry, {layer_id}) \ {layer_id}

\* the last call was a set_override that returned the empty list of errors
OverrideSet ==
    /\ runner # NoValue
    /\ runner.op = "set_override"
    /\ ~runner.raised
    /\ runner.errors = <<>>

\* after a successful set_override the store holds the text as override
\* and no data of a dependent layer
OverrideStored ==
    OverrideSet =>
        /\ store_has_data(store, DocId, override_stage(runner.layer_id))
        /\ store_get_data(store, DocId, override_stage(runner.layer_id)) = runner.dsl_text
        /\ \A lid \in Dependents(LAYERS, runner.layer_id) :
              ~store_has_data(store, DocId, data_stage(lid))

\* a run takes the data of every layer with an override from the override
OverrideTaken ==
    (runner # NoValue /\ runner.op = "run") =>
        \A lid \in Range(DictKeys(runner.results)) :
            store_has_data(runner.before, DocId, override_stage(lid)) =>
                LET dsl_text == store_get_data(runner.before, DocId, override_stage(lid))
                    data == [from |-> "dsl", layer |-> lid, text |-> dsl_text,
                             inputs |-> <<>>]
                IN  /\ DictGet(runner.results, lid) = LayerResult(TRUE, data, "from override")
                    /\ store_has_data(store, DocId, data_stage(lid))
                    /\ store_get_data(store, DocId, data_stage(lid)) = data

\* C30: when set_override(doc_id, L, text) returns no errors over an acyclic
\* registry, the store holds text as the override of L and no data of any
\* layer that depends on L directly or transitively; a later run() takes the
\* data of L from the override, not from the cache or from processing, even
\* when force is false and cached data of L exists.
C30_Override == OverrideStored /\ OverrideTaken

\* a run without force found an override of a layer and cached data that
\* processing had produced, and returned the data of the override
C30_Witness ==
    /\ runner # NoValue
    /\ runner.op = "run"
    /\ ~runner.force
    /\ \E lid \in Range(DictKeys(runner.results)) :
          /\ store_has_data(runner.before, DocId, override_stage(lid))
          /\ store_has_data(runner.before, DocId, data_stage(lid))
          /\ store_get_data(runner.before, DocId, data_stage(lid)).from = "process"
          /\ DictGet(runner.results, lid).message = "from override"

\* a successful set_override removed the data of a layer two steps downstream
C30_Invalidated ==
    /\ OverrideSet
    /\ \E lid \in Dependents(LAYERS, runner.layer_id) :
          /\ store_has_data(runner.before, DocId, data_stage(lid))
          /\ runner.layer_id \notin Range(get_layer(LAYERS, lid).depends_on)

====
